---------------------------- MODULE Spec2Model ----------------------------
(* Model of the librato-api configuration reconciliation code:             *)
(*   - LibratoApi.createOrUpdateSpace (index.js), specification SpecSpace; *)
(*     the call made twice in a row, specification SpecSpaceTwice          *)
(*   - the CLI action updateFromDir (librato.js), specification SpecUpdate *)
(*   - LibratoApi.dumpSpace and the re-creation of the dumped space in     *)
(*     another account, specification SpecDump                             *)
(*   - the finders findSpaceByName, findAlertByName and findServiceByTitle,*)
(*     specification SpecFind                                              *)
(*   - LibratoApi.createOrUpdateAlert and createOrUpdateService,           *)
(*     specifications SpecAlert and SpecService                            *)
(*   - LibratoApi.getAllPaginated, specification SpecPaginate; against a   *)
(*     server that answers every request with a page of any length,        *)
(*     specification SpecPaginateAnswered                                  *)
(*   - LibratoApi._processRawConfig and the start of updateFromDir,        *)
(*     specification SpecConfig                                            *)
EXTENDS Naturals, Integers, Sequences, FiniteSets, TLC

VARIABLES
  \* ---- one createOrUpdateSpace(newSpace) call --------------------------
  pc,            \* position of the co generator of createOrUpdateSpace
  newSpace,      \* the argument: [name, charts]
  remoteSpaces,  \* ids of the remote spaces named newSpace.name
  remoteCharts,  \* the remote charts: set of [space, id, name, rev]
  existingCharts,\* what getCharts returned to the call
  space,         \* id of the space the call operates on (0: not known yet)
  calls,         \* every remote call issued, in issue order
  chartOps,      \* the promises of the yielded array, in array order
  outcome,       \* how the returned promise settled
  \* ---- one updateFromDir run -------------------------------------------
  stage,         \* 0: not started, 1..3: the stage being awaited, 4: returned
  tasks,         \* the operations derived from the config, and their progress
  remote,        \* the remote account: per kind a set of [id, name, def]
  errorCount,    \* let errorCount
  touched,       \* the delete and write requests issued: [kind, verb, name]
  result,        \* how updateFromDir ended
  \* ---- one call of dumpSpace, a finder, or an alert / service upsert ----
  arg,           \* the argument of the call
  account,       \* the remote account the call works on
  target,        \* the account a dumped space is re-created in; the page that arrived
  promise        \* what the call has obtained so far and how its promise settled

spaceVars == <<pc, newSpace, remoteSpaces, remoteCharts, existingCharts, space,
               calls, chartOps, outcome>>
updateVars == <<stage, tasks, remote, errorCount, touched, result>>
callVars == <<arg, account, target, promise>>

vars == <<spaceVars, updateVars, callVars>>

-----------------------------------------------------------------------------
(* Bounds *)
MaxNew == 2      \* charts in the definition
MaxOld == 2      \* charts of the pre-existing remote space
MaxTasks == 2    \* operations one updateFromDir run derives from its config

ChartNames == {"a", "b", "c"}
Undefined == "undefined"          \* JavaScript undefined
SpaceName == "S"
SpaceId == 333                     \* id of a pre-existing space
NewSpaceId == SpaceId + 1          \* id the server gives to a posted space

SeqsUpTo(S, n) == UNION {[1..k -> S] : k \in 0..n}

-----------------------------------------------------------------------------
(* lodash/fp helpers, as used by the code; _.filter is SelectSeq *)

Includes(x, s) == \E i \in 1..Len(s) : s[i] = x

RECURSIVE Uniq(_)
Uniq(s) ==
  IF s = <<>> THEN <<>>
  ELSE LET r == Uniq(SubSeq(s, 1, Len(s) - 1))
       IN IF Includes(s[Len(s)], r) THEN r ELSE Append(r, s[Len(s)])

\* an omit that drops nothing
omit_nothing(keys, obj) == obj

\* _.omit(keys, obj): the object without the fields in keys
omit(keys, obj) == [f \in DOMAIN obj \ keys |-> obj[f]]

-----------------------------------------------------------------------------
(* Errors a remote call can be rejected with (request-promise):            *)
(*   err.statusCode, whether err.error is defined, and err.error.errors.   *)
ValidationError == [statusCode |-> "422", hasError |-> TRUE, errors |-> "bad params"]
NotFoundError   == [statusCode |-> "404", hasError |-> TRUE, errors |-> Undefined]
TransportError  == [statusCode |-> Undefined, hasError |-> TRUE, errors |-> Undefined]
EmptyBodyError  == [statusCode |-> "503", hasError |-> FALSE, errors |-> Undefined]
RemoteErrors == {ValidationError, NotFoundError, TransportError, EmptyBodyError}

\* what a remote call settles with
Ok == [ok |-> TRUE, err |-> TransportError]
Fail(e) == [ok |-> FALSE, err |-> e]
Results == {Ok} \cup {Fail(e) : e \in RemoteErrors}

-----------------------------------------------------------------------------
(* createOrUpdateSpace: the pure parts *)

NoChart == [name |-> Undefined, rev |-> 0]
NoBody == [name |-> Undefined]
Call(api, sid, id, chart) ==
  [api |-> api, space |-> sid, id |-> id, chart |-> chart, body |-> NoBody]

\* self.postSpace(_.omit('charts', newSpace))
PostSpaceCall(def) ==
  [Call("postSpace", 0, 0, NoChart) EXCEPT !.body = omit({"charts"}, def)]

\* _.getOr('', 'name')
getOrName(c) == IF c.name = Undefined THEN "" ELSE c.name
\* const newChartNames = _.map(_.getOr('', 'name'), newCharts)
newChartNamesOf(newCharts) == [i \in 1..Len(newCharts) |-> getOrName(newCharts[i])]

\* validateNewChartNames without its first check
validateNewChartNames_noEmptyCheck(names) ==
  IF Len(Uniq(names)) < Len(names) THEN "duplicate chart names in space" ELSE "ok"

\* validateNewChartNames without its second check
validateNewChartNames_noDuplicateCheck(names) ==
  IF \E i \in 1..Len(names) : names[i] = "" THEN "empty chart name in space" ELSE "ok"

\* the message validateNewChartNames throws with, "ok" when it returns
validateNewChartNames(names) ==
  IF \E i \in 1..Len(names) : names[i] = "" THEN "empty chart name in space"
  ELSE IF Len(Uniq(names)) < Len(names) THEN "duplicate chart names in space"
  ELSE "ok"

getIdByName(name, existing) ==
  existing[CHOOSE i \in 1..Len(existing) :
             /\ existing[i].name = name
             /\ \A j \in 1..(i - 1) : existing[j].name # name].id

\* a toDelete that deletes nothing
toDelete_none(existing, newChartNames) == <<>>

\* toDelete without the name filter: every existing chart is deleted
toDelete_all(existing, newChartNames) == existing

toDelete(existing, newChartNames) ==
  LET keep(c) == ~Includes(c.name, newChartNames) IN SelectSeq(existing, keep)

toUpdate(newCharts, existingChartNames) ==
  LET old(c) == Includes(c.name, existingChartNames) IN SelectSeq(newCharts, old)

toCreate(newCharts, existingChartNames) ==
  LET new(c) == ~Includes(c.name, existingChartNames) IN SelectSeq(newCharts, new)

\* the value a collectErrs promise settles with
Pending   == [st |-> "pending",   chart |-> Undefined, op |-> Undefined, errors |-> Undefined]
succeed   == [st |-> "undefined", chart |-> Undefined, op |-> Undefined, errors |-> Undefined]
TypeError == [st |-> "rejected",  chart |-> Undefined, op |-> Undefined, errors |-> Undefined]

getErrors(op, chart, err) ==
  IF err.hasError
  THEN [st |-> "record", chart |-> chart, op |-> op, errors |-> err.errors]
  ELSE TypeError            \* err.error.errors throws inside the catch handler

collectErrs(op, chart, r) == IF r.ok THEN succeed ELSE getErrors(op, chart, r.err)

\* how the promise returned by createOrUpdateSpace settles; msg is the error
\* message: its fixed text and the space name interpolated into it
NoOutcome == [st |-> "pending", msg |-> <<"", "">>, errors |-> <<>>]
Rejected(text, name) == [st |-> "rejected", msg |-> <<text, name>>, errors |-> <<>>]
Resolved == [st |-> "resolved", msg |-> <<"", "">>, errors |-> <<>>]
\* the rejection of a yielded request thrown on by co: error is the request's error
RejectedBy(text, err) == [st |-> "rejected", msg |-> <<text, "">>, errors |-> <<>>, error |-> err]

\* _.compact(chartResults), then the aggregate error
validateChartResults(chartResults, name) ==
  LET isErr(r) == r.st = "record"
      chartErrors == SelectSeq(chartResults, isErr)
  IN IF Len(chartErrors) > 0
     THEN [st |-> "rejected", msg |-> <<"some chart operations failed in space", name>>,
           errors |-> chartErrors]
     ELSE Resolved

\* the operations with the creates first and the deletes last
ChartOpsFor_createsFirst(sid, existing, newCharts) ==
  LET newChartNames == newChartNamesOf(newCharts)
      existingChartNames == [i \in 1..Len(existing) |-> existing[i].name]
      del(c) == [op |-> "delete", chart |-> c.name, rev |-> c.rev, id |-> c.id,
                 res |-> Pending]
      upd(c) == [op |-> "update", chart |-> c.name, rev |-> c.rev,
                 id |-> getIdByName(c.name, existing), res |-> Pending]
      cre(c) == [op |-> "create", chart |-> c.name, rev |-> c.rev, id |-> 0,
                 res |-> Pending]
      ds == toDelete(existing, newChartNames)
      us == toUpdate(newCharts, existingChartNames)
      cs == toCreate(newCharts, existingChartNames)
  IN [i \in 1..Len(cs) |-> cre(cs[i])]
     \o [i \in 1..Len(us) |-> upd(us[i])]
     \o [i \in 1..Len(ds) |-> del(ds[i])]

\* the three _.map(collectErrs(...)) of the yielded array, in array order
ChartOpsFor(sid, existing, newCharts) ==
  LET newChartNames == newChartNamesOf(newCharts)
      existingChartNames == [i \in 1..Len(existing) |-> existing[i].name]
      del(c) == [op |-> "delete", chart |-> c.name, rev |-> c.rev, id |-> c.id,
                 res |-> Pending]
      upd(c) == [op |-> "update", chart |-> c.name, rev |-> c.rev,
                 id |-> getIdByName(c.name, existing), res |-> Pending]
      cre(c) == [op |-> "create", chart |-> c.name, rev |-> c.rev, id |-> 0,
                 res |-> Pending]
      ds == toDelete(existing, newChartNames)
      us == toUpdate(newCharts, existingChartNames)
      cs == toCreate(newCharts, existingChartNames)
  IN [i \in 1..Len(ds) |-> del(ds[i])]
     \o [i \in 1..Len(us) |-> upd(us[i])]
     \o [i \in 1..Len(cs) |-> cre(cs[i])]

\* the remote call an operation of the array issues
CallOf(sid, o) ==
  IF o.op = "delete" THEN Call("deleteChart", sid, o.id, NoChart)
  ELSE IF o.op = "update"
       THEN Call("putChart", sid, o.id, [name |-> o.chart, rev |-> o.rev])
       ELSE Call("postChart", sid, 0, [name |-> o.chart, rev |-> o.rev])

RECURSIVE SortById(_)
SortById(S) ==
  IF S = {} THEN <<>>
  ELSE LET m == CHOOSE c \in S : \A d \in S : c.id <= d.id
       IN <<m>> \o SortById(S \ {m})

\* GET spaces/:id/charts
ChartListing(sid) ==
  LET l == SortById({c \in remoteCharts : c.space = sid})
  IN [i \in 1..Len(l) |-> [id |-> l[i].id, name |-> l[i].name, rev |-> l[i].rev]]

-----------------------------------------------------------------------------
(* updateFromDir: the operations of a run and the remote account *)

Kinds == {"metric", "space", "alert", "service", "source"}
ByNameKinds == {"metric", "source"}    \* addressed by name, the others by id
Names == {"x", "y"}

\* an operation of the run: the deletion of an outdated name or the upsert of a
\* declared definition; ref is the service title a declared alert refers to,
\* nth tells the declarations of one space name apart
TaskIds ==
  [act : {"delete"}, kind : Kinds, name : Names, ref : {""}, nth : {1}]
  \cup [act : {"update"}, kind : Kinds, name : Names, ref : {""}, nth : {1}]
  \cup [act : {"update"}, kind : {"alert"}, name : Names, ref : {"y"}, nth : {1}]
  \cup [act : {"update"}, kind : {"space"}, name : Names, ref : {""}, nth : {2}]

RECURSIVE SubsetsUpTo(_, _)
SubsetsUpTo(S, k) ==
  IF k = 0 THEN {{}}
  ELSE LET P == SubsetsUpTo(S, k - 1) IN P \cup {q \cup {x} : q \in P, x \in S}

\* the yield a task belongs to
TaskStage(t) ==
  IF t.act = "delete" THEN 1
  ELSE IF t.kind \in {"metric", "service", "source"} THEN 2 ELSE 3

NewTask == [phase |-> "new", id |-> 0, err |-> "none", counted |-> 0, issued |-> 0,
            rejected |-> FALSE]
FinalPhases == {"ok", "nothing there", "failed"}
NoResult == [st |-> "pending", n |-> 0]

\* the server's listing for ?name=q: a contains-check, in id order
Contains(n, q) == n = q \/ (q = "x" /\ n = "xz")
Listing(kind, q) == SortById({r \in remote[kind] : Contains(r.name, q)})

NoSuch == [found |-> FALSE, id |-> 0, name |-> Undefined]

\* _findBy without the local filter: the head of the server's listing
findBy_headOfListing(listing, value) ==
  IF listing = <<>> THEN NoSuch
  ELSE [found |-> TRUE, id |-> Head(listing).id, name |-> Head(listing).name]

\* _findBy: .then(_.filter(qs)).then(_.head).then(resultOrNoSuch(what, value))
findBy(listing, value) ==
  LET exact(r) == r.name = value
      hits == SelectSeq(listing, exact)
  IN IF hits = <<>> THEN NoSuch
     ELSE [found |-> TRUE, id |-> Head(hits).id, name |-> Head(hits).name]

\* if (err.statusCode === 404) ... else throw err
ignore404(err) == err.statusCode = "404"

\* how a task's promise ends: its last phase, the increment of errorCount and
\* whether the promise handed to the yield is rejected
Logged(phase, count, rej) == [phase |-> phase, count |-> count, rejected |-> rej]

\* withLogging without the .catch(logAndCountError)
withLogging_noCatch(r) ==
  IF r.ok THEN Logged("ok", 0, FALSE) ELSE Logged("failed", 0, TRUE)

\* withLogging wrapped like the deletions: a 404 is not counted
withLogging_ignore404(r) ==
  IF r.ok THEN Logged("ok", 0, FALSE)
  ELSE IF r.err.statusCode = "404" THEN Logged("nothing there", 0, FALSE)
       ELSE Logged("failed", 1, FALSE)

\* action.then(logOK).catch(logAndCountError)
withLogging(r) ==
  IF r.ok THEN Logged("ok", 0, FALSE) ELSE Logged("failed", 1, FALSE)

\* withLoggingIgnore404 with an ignore404 that always rethrows
withLoggingIgnore404_countAll(r) ==
  IF r.ok THEN Logged("ok", 0, FALSE) ELSE Logged("failed", 1, FALSE)

\* action.then(logOK, ignore404).catch(logAndCountError)
withLoggingIgnore404(r) ==
  IF r.ok THEN Logged("ok", 0, FALSE)
  ELSE IF ignore404(r.err) THEN Logged("nothing there", 0, FALSE)
       ELSE Logged("failed", 1, FALSE)

\* the wrapper of a task: delete* use withLoggingIgnore404, update* withLogging
Wrap(t, r) == IF t.act = "delete" THEN withLoggingIgnore404(r) ELSE withLogging(r)

\* the first call of a task, made when its stage's object is built
FirstPhase(t) ==
  IF t.kind \in ByNameKinds THEN (IF t.act = "delete" THEN "delete" ELSE "put")
  ELSE IF t.act = "update" /\ t.kind = "alert" THEN "getAllServices"
       ELSE "lookup"

Touch(t, verb, name) == [kind |-> t.kind, verb |-> verb, name |-> name]

\* the yield resumes only when every promise of its object has settled
StageSettled_immediately(s) == TRUE

StageSettled(s) ==
  \A t \in DOMAIN tasks : TaskStage(t) = s => tasks[t].phase \in FinalPhases

-----------------------------------------------------------------------------
(* createOrUpdateSpace: the steps of its generator *)

NewCharts == [name : ChartNames \cup {"", Undefined}, rev : {1}]

SpaceInit ==
  /\ pc = "idle"
  /\ newSpace \in [name : {SpaceName}, charts : SeqsUpTo(NewCharts, MaxNew)]
  /\ \E old \in SeqsUpTo(ChartNames, MaxOld), exists \in BOOLEAN :
       /\ remoteSpaces = IF exists THEN {SpaceId} ELSE {}
       /\ remoteCharts = IF exists
                         THEN {[space |-> SpaceId, id |-> 100 + i, name |-> old[i],
                                rev |-> 0] : i \in 1..Len(old)}
                         ELSE {}
  /\ existingCharts = <<>>
  /\ space = 0
  /\ calls = <<>>
  /\ chartOps = <<>>
  /\ outcome = NoOutcome
  /\ stage = 0
  /\ tasks = <<>>
  /\ remote = <<>>
  /\ errorCount = 0
  /\ touched = {}
  /\ result = NoResult
  /\ arg = Undefined
  /\ account = <<>>
  /\ target = <<>>
  /\ promise = Undefined

\* the call runs up to its first yield
CallCreateOrUpdateSpace ==
  /\ pc = "idle"
  /\ LET v == validateNewChartNames(newChartNamesOf(newSpace.charts)) IN
       IF v # "ok"
       THEN /\ pc' = "done"
            /\ outcome' = Rejected(v, newSpace.name)
            /\ calls' = calls
       ELSE /\ pc' = "findSpaceByName"
            /\ outcome' = outcome
            /\ calls' = Append(calls, Call("findSpaceByName", 0, 0, NoChart))
  /\ UNCHANGED <<newSpace, remoteSpaces, remoteCharts, existingCharts, space, chartOps>>
  /\ UNCHANGED <<updateVars, callVars>>

\* resumes with the existing charts: computes and issues the chart operations
StartChartOps(sid, existing) ==
  LET ops == ChartOpsFor(sid, existing, newSpace.charts) IN
  /\ existingCharts' = existing
  /\ chartOps' = ops
  /\ calls' = calls \o [i \in 1..Len(ops) |-> CallOf(sid, ops[i])]
  /\ IF ops = <<>>
     THEN pc' = "done" /\ outcome' = validateChartResults(<<>>, newSpace.name)
     ELSE pc' = "chartOps" /\ outcome' = outcome

\* findSpaceByName(newSpace.name).catch(_.constant(undefined)) settles
FindSpaceReturns ==
  /\ pc = "findSpaceByName"
  /\ \E r \in Results :
       /\ r.ok => remoteSpaces # {}
       /\ (~r.ok /\ r.err = NotFoundError) => remoteSpaces = {}
       /\ IF r.ok
          THEN LET sid == CHOOSE s \in remoteSpaces : \A t \in remoteSpaces : s <= t IN
               /\ space' = sid
               /\ pc' = "getCharts"
               /\ calls' = Append(calls, Call("getCharts", sid, 0, NoChart))
          ELSE /\ space' = space
               /\ pc' = "postSpace"
               /\ calls' = Append(calls, PostSpaceCall(newSpace))
  /\ UNCHANGED <<newSpace, remoteSpaces, remoteCharts, existingCharts, chartOps, outcome>>
  /\ UNCHANGED <<updateVars, callVars>>

PostSpaceReturns ==
  /\ pc = "postSpace"
  /\ \E r \in Results :
       /\ r.err # NotFoundError
       /\ IF r.ok
          THEN /\ remoteSpaces' = remoteSpaces \cup {NewSpaceId}
               /\ space' = NewSpaceId
               /\ StartChartOps(NewSpaceId, <<>>)
          ELSE /\ pc' = "done"
               /\ outcome' = RejectedBy("postSpace error", r.err)
               /\ UNCHANGED <<remoteSpaces, space, existingCharts, chartOps, calls>>
  /\ UNCHANGED <<newSpace, remoteCharts>>
  /\ UNCHANGED <<updateVars, callVars>>

\* a call that takes the charts of the space for none when getCharts fails
GetChartsReturns_assumesNone ==
  /\ pc = "getCharts"
  /\ \E r \in Results :
       StartChartOps(space, IF r.ok THEN ChartListing(space) ELSE <<>>)
  /\ UNCHANGED <<newSpace, remoteSpaces, remoteCharts, space>>
  /\ UNCHANGED <<updateVars, callVars>>

GetChartsReturns ==
  /\ pc = "getCharts"
  /\ \E r \in Results :
       IF r.ok
       THEN StartChartOps(space, ChartListing(space))
       ELSE /\ pc' = "done"
            /\ outcome' = RejectedBy("getCharts error", r.err)
            /\ UNCHANGED <<existingCharts, chartOps, calls>>
  /\ UNCHANGED <<newSpace, remoteSpaces, remoteCharts, space>>
  /\ UNCHANGED <<updateVars, callVars>>

\* a server that applies a chart request only while no request of the call failed
RemoteAfter_transactional(i, o) ==
  IF \E j \in 1..Len(chartOps) : chartOps[j].res.st \in {"record", "rejected"}
  THEN remoteCharts
  ELSE IF o.op = "delete" THEN {c \in remoteCharts : c.id # o.id}
  ELSE IF o.op = "update"
       THEN {IF c.id = o.id THEN [c EXCEPT !.name = o.chart, !.rev = o.rev] ELSE c :
               c \in remoteCharts}
       ELSE remoteCharts \cup {[space |-> space, id |-> 200 + i, name |-> o.chart,
                                rev |-> o.rev]}

\* what a successful chart request does to the remote space
RemoteAfter(i, o) ==
  IF o.op = "delete" THEN {c \in remoteCharts : c.id # o.id}
  ELSE IF o.op = "update"
       THEN {IF c.id = o.id THEN [c EXCEPT !.name = o.chart, !.rev = o.rev] ELSE c :
               c \in remoteCharts}
       ELSE remoteCharts \cup {[space |-> space, id |-> 200 + i, name |-> o.chart,
                                rev |-> o.rev]}

\* one chart request settles; Promise.all over the array rejects with the first
\* rejection and resolves when every promise is fulfilled
ChartOpSettles ==
  \E i \in 1..Len(chartOps), r \in Results :
    /\ chartOps[i].res.st = "pending"
    /\ LET o == chartOps[i]
           v == collectErrs(o.op, o.chart, r)
           ops == [chartOps EXCEPT ![i].res = v]
           results == [j \in 1..Len(ops) |-> ops[j].res]
       IN /\ chartOps' = ops
          /\ remoteCharts' = IF r.ok THEN RemoteAfter(i, o) ELSE remoteCharts
          /\ IF pc # "chartOps"
             THEN UNCHANGED <<pc, outcome>>
             ELSE IF v.st = "rejected"
                  THEN pc' = "done" /\ outcome' = Rejected("TypeError", "")
                  ELSE IF \A j \in 1..Len(ops) : ops[j].res.st # "pending"
                       THEN pc' = "done" /\ outcome' = validateChartResults(results, newSpace.name)
                       ELSE UNCHANGED <<pc, outcome>>
    /\ UNCHANGED <<newSpace, remoteSpaces, existingCharts, space, calls>>
    /\ UNCHANGED <<updateVars, callVars>>

SpaceNext ==
  \/ CallCreateOrUpdateSpace
  \/ FindSpaceReturns
  \/ PostSpaceReturns
  \/ GetChartsReturns
  \/ ChartOpSettles

SpecSpace == SpaceInit /\ [][SpaceNext]_vars

\* the calls of createOrUpdateSpace so far that came to their lookup
Invocations == Len(SelectSeq(calls, LAMBDA c : c.api = "findSpaceByName"))

\* createOrUpdateSpace(newSpace) once more, right after the first call resolved
CallCreateOrUpdateSpaceAgain ==
  /\ pc = "done"
  /\ outcome = Resolved
  /\ Invocations = 1
  /\ pc' = "findSpaceByName"
  /\ outcome' = NoOutcome
  /\ calls' = Append(calls, Call("findSpaceByName", 0, 0, NoChart))
  /\ chartOps' = <<>>
  /\ existingCharts' = <<>>
  /\ space' = 0
  /\ UNCHANGED <<newSpace, remoteSpaces, remoteCharts>>
  /\ UNCHANGED <<updateVars, callVars>>

SpaceTwiceNext ==
  \/ CallCreateOrUpdateSpace
  \/ FindSpaceReturns
  \/ PostSpaceReturns
  \/ GetChartsReturns
  \/ ChartOpSettles
  \/ CallCreateOrUpdateSpaceAgain

SpecSpaceTwice == SpaceInit /\ [][SpaceTwiceNext]_vars

-----------------------------------------------------------------------------
(* updateFromDir: the steps of its generator and of the tasks' promises *)

InitialRemote ==
  [k \in Kinds |-> {[id |-> 1, name |-> "xz", def |-> "old"], [id |-> 2, name |-> "x", def |-> "old"]}]
PostedId(t) == (IF t.name = "x" THEN 11 ELSE 12) + 10 * (t.nth - 1)

UpdateInit ==
  /\ stage = 0
  /\ \E T \in SubsetsUpTo(TaskIds, MaxTasks) : tasks = [t \in T |-> NewTask]
  /\ remote = InitialRemote
  /\ errorCount = 0
  /\ touched = {}
  /\ result = NoResult
  /\ arg = Undefined
  /\ account = <<>>
  /\ target = <<>>
  /\ promise = Undefined
  /\ pc = "idle"
  /\ newSpace = [name |-> SpaceName, charts |-> <<>>]
  /\ remoteSpaces = {}
  /\ remoteCharts = {}
  /\ existingCharts = <<>>
  /\ space = 0
  /\ calls = <<>>
  /\ chartOps = <<>>
  /\ outcome = NoOutcome

\* building the object of stage s calls every delete* / update* of the stage
IssueStage(s) ==
  /\ stage' = s
  /\ tasks' = [t \in DOMAIN tasks |->
                 IF TaskStage(t) = s
                 THEN [tasks[t] EXCEPT !.phase = FirstPhase(t), !.issued = @ + 1]
                 ELSE tasks[t]]
  /\ touched' = touched \cup
       {Touch(t, FirstPhase(t), t.name) :
          t \in {u \in DOMAIN tasks : TaskStage(u) = s /\ u.kind \in ByNameKinds}}

StartUpdate ==
  /\ stage = 0
  /\ IssueStage(1)
  /\ UNCHANGED <<remote, errorCount, result>>
  /\ UNCHANGED <<spaceVars, callVars>>

\* a yield resumes: the next stage is built, or the run ends
StageSettles ==
  /\ stage \in 1..3
  /\ LET mine == {t \in DOMAIN tasks : TaskStage(t) = stage}
         thrown == \E t \in mine : tasks[t].rejected
     IN /\ thrown \/ StageSettled(stage)
        /\ IF thrown
           THEN /\ stage' = 4
                /\ result' = [st |-> "rejected", n |-> 0]
                /\ UNCHANGED <<tasks, touched>>
           ELSE IF stage < 3
                THEN IssueStage(stage + 1) /\ result' = result
                ELSE /\ stage' = 4
                     /\ result' = IF errorCount > 0
                                  THEN [st |-> "rejected", n |-> errorCount]
                                  ELSE [st |-> "resolved", n |-> 0]
                     /\ UNCHANGED <<tasks, touched>>
  /\ UNCHANGED <<remote, errorCount>>
  /\ UNCHANGED <<spaceVars, callVars>>

\* what the run's log tells of a failure: a 404 or anything else
ErrClass(err) == IF err.statusCode = "404" THEN "404" ELSE "other"

\* the promise of task t ends with the result r of its action
Finish(t, r) ==
  LET f == Wrap(t, r) IN
  /\ tasks' = [tasks EXCEPT ![t] = [@ EXCEPT !.phase = f.phase,
                                             !.err = IF r.ok THEN "none" ELSE ErrClass(r.err),
                                             !.counted = @ + f.count,
                                             !.rejected = f.rejected]]
  /\ errorCount' = errorCount + f.count

Continue(t, phase, id) ==
  /\ tasks' = [tasks EXCEPT ![t] = [@ EXCEPT !.phase = phase, !.id = id]]
  /\ errorCount' = errorCount

\* createOrUpdateAlert: yield self.getAllServices(), then the service ids
GetAllServicesSettles ==
  \E t \in DOMAIN tasks, r \in Results :
    /\ tasks[t].phase = "getAllServices"
    /\ IF ~r.ok THEN Finish(t, r)
       ELSE IF t.ref # "" /\ ~\E sv \in remote["service"] : sv.name = t.ref
            THEN Finish(t, Fail(NotFoundError))       \* resultOrNoSuch throws
            ELSE Continue(t, "lookup", 0)
    /\ UNCHANGED <<stage, remote, touched, result>>
    /\ UNCHANGED <<spaceVars, callVars>>

\* find*ByName / findServiceByTitle settles
LookupSettles ==
  \E t \in DOMAIN tasks, r \in Results :
    /\ tasks[t].phase = "lookup"
    /\ (~r.ok /\ r.err = NotFoundError) => ~findBy(Listing(t.kind, t.name), t.name).found
    /\ LET hit == findBy(Listing(t.kind, t.name), t.name) IN
       IF t.act = "delete"
       THEN IF r.ok /\ hit.found
            THEN /\ Continue(t, "delete", hit.id)
                 /\ touched' = touched \cup {Touch(t, "delete", hit.name)}
            ELSE /\ Finish(t, IF r.ok THEN Fail(NotFoundError) ELSE r)
                 /\ touched' = touched
       ELSE IF r.ok /\ hit.found
            THEN IF t.kind = "space"
                 THEN Continue(t, "getCharts", hit.id) /\ touched' = touched
                 ELSE /\ Continue(t, "put", hit.id)
                      /\ touched' = touched \cup {Touch(t, "put", hit.name)}
            ELSE /\ Continue(t, "post", 0)
                 /\ touched' = touched \cup {Touch(t, "post", t.name)}
    /\ UNCHANGED <<stage, remote, result>>
    /\ UNCHANGED <<spaceVars, callVars>>

Exists(t) ==
  IF t.kind \in ByNameKinds THEN \E x \in remote[t.kind] : x.name = t.name
  ELSE \E x \in remote[t.kind] : x.id = tasks[t].id

\* what a successful delete, put or post does to the account
RemoteEffect(t) ==
  LET mine == remote[t.kind]
      ph == tasks[t].phase
      written(x) == IF t.kind \in ByNameKinds THEN x.name = t.name ELSE x.id = tasks[t].id
  IN IF ph = "delete"
     THEN IF t.kind \in ByNameKinds THEN {x \in mine : x.name # t.name}
          ELSE {x \in mine : x.id # tasks[t].id}
     ELSE IF ph = "post" \/ (t.kind \in ByNameKinds /\ ~Exists(t))
          THEN mine \cup {[id |-> PostedId(t), name |-> t.name, def |-> "declared"]}
          ELSE {IF written(x) THEN [x EXCEPT !.def = "declared"] ELSE x : x \in mine}

\* a delete, put or post request settles
RequestSettles ==
  \E t \in DOMAIN tasks, r \in Results :
    /\ tasks[t].phase \in {"delete", "put", "post"}
    /\ (r.ok /\ (tasks[t].phase = "delete" \/ t.kind \notin ByNameKinds)
             /\ tasks[t].phase # "post") => Exists(t)
    /\ (~r.ok /\ r.err = NotFoundError) => ~Exists(t)
    /\ remote' = IF r.ok THEN [remote EXCEPT ![t.kind] = RemoteEffect(t)] ELSE remote
    /\ IF r.ok /\ t.kind = "space" /\ tasks[t].phase = "post"
       THEN Continue(t, "chartOps", PostedId(t))
       ELSE Finish(t, r)
    /\ UNCHANGED <<stage, touched, result>>
    /\ UNCHANGED <<spaceVars, callVars>>

\* createOrUpdateSpace of an existing space: yield self.getCharts(space.id)
SpaceChartsFetched ==
  \E t \in DOMAIN tasks, r \in Results :
    /\ tasks[t].phase = "getCharts"
    /\ IF r.ok THEN Continue(t, "chartOps", tasks[t].id) ELSE Finish(t, r)
    /\ UNCHANGED <<stage, remote, touched, result>>
    /\ UNCHANGED <<spaceVars, callVars>>

\* createOrUpdateSpace: the yielded array of chart operations settles
SpaceChartOpsSettle ==
  \E t \in DOMAIN tasks, r \in Results :
    /\ tasks[t].phase = "chartOps"
    /\ Finish(t, r)
    /\ remote' = IF r.ok
                 THEN [remote EXCEPT !["space"] =
                         {IF x.id = tasks[t].id THEN [x EXCEPT !.def = "declared"] ELSE x : x \in @}]
                 ELSE remote
    /\ UNCHANGED <<stage, touched, result>>
    /\ UNCHANGED <<spaceVars, callVars>>

UpdateNext ==
  \/ StartUpdate
  \/ StageSettles
  \/ GetAllServicesSettles
  \/ LookupSettles
  \/ RequestSettles
  \/ SpaceChartsFetched
  \/ SpaceChartOpsSettle

SpecUpdate == UpdateInit /\ [][UpdateNext]_vars

-----------------------------------------------------------------------------
(* dumpSpace, and createOrUpdateSpace applied to its result in an account  *)
(* that has no space of that name                                          *)

MaxSpaces == 2     \* spaces of the dumped account
MaxCharts == 2     \* charts of the dumped space

\* the variables of createOrUpdateSpace and updateFromDir a call does not use
spaceOnlyVars == <<newSpace, remoteSpaces, remoteCharts, existingCharts>>

SpaceUnused ==
  /\ newSpace = [name |-> SpaceName, charts |-> <<>>]
  /\ remoteSpaces = {}
  /\ remoteCharts = {}
  /\ existingCharts = <<>>

UpdateUnused ==
  /\ stage = 0
  /\ tasks = <<>>
  /\ remote = <<>>
  /\ errorCount = 0
  /\ touched = {}
  /\ result = NoResult

\* how the promise of a call stands
NotSettled == [st |-> "pending"]
ResolvedWith(v) == [st |-> "resolved", value |-> v]
RejectedWith(e) == [st |-> "rejected", error |-> e]

\* a noSuch that throws another status
noSuch_otherStatus(what, name) ==
  [statusCode |-> "500", hasError |-> TRUE, errors |-> Undefined,
   what |-> what, name |-> name]

\* throw new StatusCodeError(404, `no ${what} named ${name}`)
noSuch(what, name) ==
  [statusCode |-> "404", hasError |-> TRUE, errors |-> Undefined,
   what |-> what, name |-> name]

\* a listing request either returns the listing or fails in transport
FewResults == {Ok, Fail(TransportError)}

\* streams as the server returns them
stream1 == [name |-> "s1", id |-> 1011, type |-> "gauge", source |-> "*"]
stream3 == [name |-> "s2", id |-> 1012, type |-> "composite", source |-> "%",
            composite |-> "sum(s (...)", metric |-> "somthing"]
stream4 == [name |-> "s4", id |-> 1014, type |-> "composite",
            composite |-> "sum(s (...)"]
StreamLists == {<<stream1>>, <<stream3>>, <<stream4, stream1>>}

\* the user-defined part of a remote chart
ChartShapes == [name : {"a", "b"}, type : {"line"}, streams : StreamLists]
\* the chart held by every space of the account but the one under study
Decoy == <<[name |-> "z", type |-> "line", streams |-> <<stream1>>]>>

\* GET spaces?name=q: the spaces whose name contains q, in listing order
SpaceListing(acc, q) ==
  LET all == [i \in 1..Len(acc.spaces) |->
                [id |-> SpaceId + i - 1, name |-> acc.spaces[i]]]
      loose(r) == Contains(r.name, q)
  IN SelectSeq(all, loose)

\* GET spaces/:id/charts of the dumped account
RemoteChartsOf(acc, sid) ==
  LET shapes == IF sid = SpaceId + acc.owner - 1 THEN acc.charts ELSE Decoy
  IN [i \in 1..Len(shapes) |->
        [id |-> 100 + i, name |-> shapes[i].name, type |-> shapes[i].type,
         streams |-> shapes[i].streams]]

\* an omitRedundantComposite that drops composite from every stream
omitRedundantComposite_always(stream) == omit({"composite"}, stream)

omitRedundantComposite(stream) ==
  IF "metric" \in DOMAIN stream THEN omit({"composite"}, stream) ELSE stream

\* _.flow(_.omit(['id', 'type']), omitRedundantComposite)
cleanStream(stream) == omitRedundantComposite(omit({"id", "type"}, stream))
cleanStreams(streams) == [i \in 1..Len(streams) |-> cleanStream(streams[i])]

\* a cleanChart that also omits the chart's type
cleanChart_omitType(chart) ==
  LET c == omit({"id", "type"}, chart) IN
  [f \in DOMAIN c \cup {"streams"} |->
     IF f = "streams"
     THEN cleanStreams(IF "streams" \in DOMAIN c THEN c.streams ELSE <<>>)
     ELSE c[f]]

\* _.flow(_.omit('id'), _.update('streams', cleanStreams))
cleanChart(chart) ==
  LET c == omit({"id"}, chart) IN
  [f \in DOMAIN c \cup {"streams"} |->
     IF f = "streams"
     THEN cleanStreams(IF "streams" \in DOMAIN c THEN c.streams ELSE <<>>)
     ELSE c[f]]
cleanCharts(charts) == [i \in 1..Len(charts) |-> cleanChart(charts[i])]

\* _.flow(_.omit('id'), _.update('charts', cleanCharts))
cleanSpace(sp) ==
  LET o == omit({"id"}, sp) IN
  [f \in DOMAIN o \cup {"charts"} |->
     IF f = "charts"
     THEN cleanCharts(IF "charts" \in DOMAIN o THEN o.charts ELSE <<>>)
     ELSE o[f]]

\* _.merge(space, { charts }) for a space of the listing, which has no charts
mergeCharts(sp, charts) ==
  [f \in DOMAIN sp \cup {"charts"} |-> IF f = "charts" THEN charts ELSE sp[f]]

\* what the server makes of a posted stream: it assigns the id and derives the
\* type, and the composite of a stream given by its metric
ServerStream(s, j) ==
  LET derived == IF "metric" \in DOMAIN s THEN {"id", "type", "composite"}
                 ELSE {"id", "type"}
  IN [f \in DOMAIN s \cup derived |->
        IF f = "id" THEN 1010 + j
        ELSE IF f = "type"
             THEN (IF "metric" \in DOMAIN s \/ "composite" \in DOMAIN s
                   THEN "composite" ELSE "gauge")
             ELSE IF f = "composite" /\ "metric" \in DOMAIN s THEN "sum(s (...)"
                  ELSE s[f]]

\* what the server stores for POST spaces/:id/charts with body b
ServerChart(b, id) ==
  [f \in DOMAIN b \cup {"id"} |->
     IF f = "id" THEN id
     ELSE IF f = "streams"
          THEN [j \in 1..Len(b.streams) |-> ServerStream(b.streams[j], j)]
          ELSE b[f]]

DumpInit ==
  /\ pc = "idle"
  /\ arg = "x"
  /\ \E sp \in SeqsUpTo({"x", "xz"}, MaxSpaces), cs \in SeqsUpTo(ChartShapes, MaxCharts),
        o \in 1..MaxSpaces :
       /\ IF sp = <<>> THEN o = 1 /\ cs = <<>> ELSE o <= Len(sp)
       /\ account = [spaces |-> sp, owner |-> o, charts |-> cs]
  /\ target \in {[spaces |-> l, charts |-> {}] : l \in {<<>>, <<[id |-> 1, name |-> "xz"]>>}}
  /\ promise = NotSettled
  /\ space = 0
  /\ calls = <<>>
  /\ chartOps = <<>>
  /\ outcome = NoOutcome
  /\ SpaceUnused
  /\ UpdateUnused

\* dumpSpace(name) runs up to its first yield
CallDumpSpace ==
  /\ pc = "idle"
  /\ pc' = "dumpSpace:findSpaceByName"
  /\ calls' = Append(calls, [Call("findSpaceByName", 0, 0, NoChart)
                               EXCEPT !.body = [name |-> arg]])
  /\ UNCHANGED <<space, chartOps, outcome, spaceOnlyVars, updateVars, callVars>>

\* const space = yield self.findSpaceByName(name)
DumpFindSettles ==
  /\ pc = "dumpSpace:findSpaceByName"
  /\ \E r \in FewResults :
       LET found == findBy(SpaceListing(account, arg), arg) IN
       IF r.ok /\ found.found
       THEN /\ space' = found.id
            /\ pc' = "dumpSpace:getCharts"
            /\ calls' = Append(calls, Call("getCharts", found.id, 0, NoChart))
            /\ promise' = promise
       ELSE /\ pc' = "dumped"
            /\ promise' = RejectedWith(IF r.ok THEN noSuch("space", arg) ELSE r.err)
            /\ UNCHANGED <<space, calls>>
  /\ UNCHANGED <<chartOps, outcome, spaceOnlyVars, updateVars, arg, account, target>>

\* const charts = yield self.getCharts(space.id), then the return
DumpChartsSettle ==
  /\ pc = "dumpSpace:getCharts"
  /\ pc' = "dumped"
  /\ \E r \in FewResults :
       promise' = IF r.ok
                  THEN ResolvedWith(cleanSpace(mergeCharts([id |-> space, name |-> arg],
                                                           RemoteChartsOf(account, space))))
                  ELSE RejectedWith(r.err)
  /\ UNCHANGED <<space, calls, chartOps, outcome, spaceOnlyVars, updateVars,
                 arg, account, target>>

\* createOrUpdateSpace(dump) against the other account, up to its first yield
CallCreateOrUpdateSpaceOfDump ==
  /\ pc = "dumped"
  /\ promise.st = "resolved"
  /\ newSpace' = promise.value
  /\ space' = 0
  /\ LET v == validateNewChartNames(newChartNamesOf(promise.value.charts)) IN
       IF v # "ok"
       THEN /\ pc' = "done"
            /\ outcome' = Rejected(v, promise.value.name)
            /\ calls' = calls
       ELSE /\ pc' = "recreate:findSpaceByName"
            /\ outcome' = outcome
            /\ calls' = Append(calls, [Call("findSpaceByName", 0, 0, NoChart)
                                         EXCEPT !.body = [name |-> promise.value.name]])
  /\ UNCHANGED <<remoteSpaces, remoteCharts, existingCharts, chartOps, updateVars, callVars>>

\* the lookup in the other account settles: no space has that name there, and
\* a failed lookup is caught, so the space is created
RecreateFindSettles ==
  /\ pc = "recreate:findSpaceByName"
  /\ \E r \in FewResults :
       LET loose(s) == Contains(s.name, newSpace.name)
           found == findBy(SelectSeq(target.spaces, loose), newSpace.name)
       IN ~(r.ok /\ found.found)
  /\ pc' = "recreate:postSpace"
  /\ calls' = Append(calls, PostSpaceCall(newSpace))
  /\ UNCHANGED <<space, chartOps, outcome, spaceOnlyVars, updateVars, callVars>>

\* postSpace settles; with the id the array of chart creations is yielded
RecreatePostSpaceSettles ==
  /\ pc = "recreate:postSpace"
  /\ \E r \in FewResults :
       IF r.ok
       THEN LET cs == toCreate(newSpace.charts, <<>>)
                ops == [i \in 1..Len(cs) |->
                          [op |-> "create", chart |-> cs[i].name, body |-> cs[i],
                           res |-> Pending]]
            IN /\ target' = [target EXCEPT !.spaces =
                               Append(@, [id |-> NewSpaceId, name |-> newSpace.name])]
               /\ space' = NewSpaceId
               /\ chartOps' = ops
               /\ calls' = calls \o [i \in 1..Len(ops) |->
                                       [Call("postChart", NewSpaceId, 0, NoChart)
                                          EXCEPT !.body = ops[i].body]]
               /\ IF ops = <<>>
                  THEN pc' = "done" /\ outcome' = validateChartResults(<<>>, newSpace.name)
                  ELSE pc' = "recreate:chartOps" /\ outcome' = outcome
       ELSE /\ pc' = "done"
            /\ outcome' = Rejected("postSpace error", "")
            /\ UNCHANGED <<target, space, chartOps, calls>>
  /\ UNCHANGED <<spaceOnlyVars, updateVars, arg, account, promise>>

\* one postChart settles; the server numbers the charts in arrival order
RecreateChartSettles ==
  /\ pc = "recreate:chartOps"
  /\ \E i \in 1..Len(chartOps), r \in FewResults :
       /\ chartOps[i].res.st = "pending"
       /\ LET o == chartOps[i]
              ops == [chartOps EXCEPT ![i].res = collectErrs(o.op, o.chart, r)]
              results == [j \in 1..Len(ops) |-> ops[j].res]
          IN /\ chartOps' = ops
             /\ target' = IF r.ok
                          THEN [target EXCEPT !.charts =
                                  @ \cup {ServerChart(o.body, 201 + Cardinality(@))}]
                          ELSE target
             /\ IF \A j \in 1..Len(ops) : ops[j].res.st # "pending"
                THEN pc' = "done" /\ outcome' = validateChartResults(results, newSpace.name)
                ELSE UNCHANGED <<pc, outcome>>
  /\ UNCHANGED <<space, calls, spaceOnlyVars, updateVars, arg, account, promise>>

DumpNext ==
  \/ CallDumpSpace
  \/ DumpFindSettles
  \/ DumpChartsSettle
  \/ CallCreateOrUpdateSpaceOfDump
  \/ RecreateFindSettles
  \/ RecreatePostSpaceSettles
  \/ RecreateChartSettles

SpecDump == DumpInit /\ [][DumpNext]_vars

-----------------------------------------------------------------------------
(* The finders findSpaceByName, findAlertByName and findServiceByTitle *)

MaxListing == 3    \* elements of the kind the finder looks at

\* finder |-> <<what, property>>, the arguments it passes to _findBy
Finders == [findSpaceByName |-> <<"space", "name">>,
            findAlertByName |-> <<"alert", "name">>,
            findServiceByTitle |-> <<"service", "title">>]

\* the elements of the account, in the server's listing order
Elements(property, names) ==
  [i \in 1..Len(names) |->
     IF property = "title" THEN [id |-> i, title |-> names[i]]
     ELSE [id |-> i, name |-> names[i]]]

\* GET <kind>?<property>=q: a contains-check on the server side
ServerListing(items, property, q) ==
  LET loose(r) == Contains(r[property], q) IN SelectSeq(items, loose)

\* _findBy without the local filter
findByProperty_headOfListing(what, property, listing, v) ==
  IF listing = <<>> THEN RejectedWith(noSuch(what, v)) ELSE ResolvedWith(Head(listing))

\* _findBy: getAll({ qs }).then(_.filter(qs)).then(_.head)
\*            .then(resultOrNoSuch(what, value))
findByProperty(what, property, listing, v) ==
  LET exact(r) == r[property] = v
      hits == SelectSeq(listing, exact)
  IN IF hits = <<>> THEN RejectedWith(noSuch(what, v)) ELSE ResolvedWith(Head(hits))

FindInit ==
  /\ pc = "idle"
  /\ arg \in [finder : DOMAIN Finders, value : {"x", "xz", "y"}]
  /\ \E names \in SeqsUpTo({"x", "xz", "y"}, MaxListing) :
       account = Elements(Finders[arg.finder][2], names)
  /\ target = <<>>
  /\ promise = NotSettled
  /\ space = 0
  /\ calls = <<>>
  /\ chartOps = <<>>
  /\ outcome = NoOutcome
  /\ SpaceUnused
  /\ UpdateUnused

\* the finder issues the listing request with qs = { [property]: value }
CallFinder ==
  /\ pc = "idle"
  /\ pc' = "listing"
  /\ calls' = Append(calls, [api |-> "getAll", what |-> Finders[arg.finder][1],
                             property |-> Finders[arg.finder][2], value |-> arg.value])
  /\ UNCHANGED <<space, chartOps, outcome, spaceOnlyVars, updateVars, callVars>>

\* the listing settles and the then-chain runs
ListingSettles ==
  /\ pc = "listing"
  /\ pc' = "done"
  /\ \E r \in FewResults :
       promise' =
         IF r.ok
         THEN findByProperty(Finders[arg.finder][1], Finders[arg.finder][2],
                             ServerListing(account, Finders[arg.finder][2], arg.value),
                             arg.value)
         ELSE RejectedWith(r.err)
  /\ UNCHANGED <<space, calls, chartOps, outcome, spaceOnlyVars, updateVars,
                 arg, account, target>>

FindNext ==
  \/ CallFinder
  \/ ListingSettles

SpecFind == FindInit /\ [][FindNext]_vars

-----------------------------------------------------------------------------
(* createOrUpdateAlert *)

MaxServices == 2   \* services of the account
MaxAlerts == 2     \* alerts of the account
MaxRefs == 2       \* service references of the new alert

\* service ids are written as strings, so that a reference can be compared
\* with ids and with titles; "s9" matches no service
ServiceTitles == {"s1", "s2"}
ServiceRefs == {"1", "s2", "s9"}

\* a request of the alert and service upserts, as logged
Request(api, id, body) == [api |-> api, id |-> id, body |-> body]

\* a getServiceId that passes an unknown reference on instead of throwing
getServiceId_lenient(titleOrId, services) ==
  LET match(s) == s.id = titleOrId \/ s.title = titleOrId
      hits == SelectSeq(services, match)
  IN IF hits = <<>> THEN titleOrId ELSE Head(hits).id

\* resultOrNoSuch('service', titleOrId, _.find(s => s.id === titleOrId ||
\*   s.title === titleOrId, services)).id; Undefined stands for the throw
getServiceId(titleOrId, services) ==
  LET match(s) == s.id = titleOrId \/ s.title = titleOrId
      hits == SelectSeq(services, match)
  IN IF hits = <<>> THEN Undefined ELSE Head(hits).id

\* _.map(getServiceId, newAlert.services)
serviceIdsOf(newAlert, services) ==
  [i \in 1..Len(newAlert.services) |-> getServiceId(newAlert.services[i], services)]

\* _.merge(newAlert, { services: ... })
mergeServices(newAlert, ids) ==
  [f \in DOMAIN newAlert \cup {"services"} |-> IF f = "services" THEN ids ELSE newAlert[f]]

\* the first reference _.map throws at
FirstUnknown(newAlert, ids) ==
  newAlert.services[CHOOSE i \in 1..Len(ids) :
                      ids[i] = Undefined /\ \A j \in 1..(i - 1) : ids[j] # Undefined]

\* id the server gives to a posted alert or service
PostedAtId == 101

\* what the server stores and returns for a write with that body
Stored(id, body) ==
  [f \in DOMAIN body \cup {"id"} |-> IF f = "id" THEN id ELSE body[f]]

\* the listing after PUT <kind>/:id with that body
AfterPut(items, id, body) ==
  [i \in 1..Len(items) |-> IF items[i].id = id THEN Stored(id, body) ELSE items[i]]

AlertInit ==
  /\ pc = "idle"
  /\ \E refs \in SeqsUpTo(ServiceRefs, MaxRefs) :
       arg = [name |-> "x", services |-> refs]
  /\ \E ts \in SeqsUpTo(ServiceTitles, MaxServices), ns \in SeqsUpTo({"x", "xz"}, MaxAlerts) :
       account = [services |-> [i \in 1..Len(ts) |-> [id |-> ToString(i), title |-> ts[i]]],
                  alerts |-> [i \in 1..Len(ns) |->
                                [id |-> i, name |-> ns[i], services |-> <<>>]]]
  /\ target = <<>>
  /\ promise = NotSettled
  /\ space = 0
  /\ calls = <<>>
  /\ chartOps = <<>>
  /\ outcome = NoOutcome
  /\ SpaceUnused
  /\ UpdateUnused

\* createOrUpdateAlert(newAlert) runs up to yield self.getAllServices()
CallCreateOrUpdateAlert ==
  /\ pc = "idle"
  /\ pc' = "getAllServices"
  /\ calls' = Append(calls, Request("getAllServices", 0, <<>>))
  /\ UNCHANGED <<space, chartOps, outcome, spaceOnlyVars, updateVars, callVars>>

\* the services arrive: the references are resolved and the alert is looked up
ServicesSettle ==
  /\ pc = "getAllServices"
  /\ \E r \in FewResults :
       LET ids == serviceIdsOf(arg, account.services) IN
       IF ~r.ok
       THEN /\ pc' = "done"
            /\ promise' = RejectedWith(r.err)
            /\ calls' = calls
       ELSE IF \E i \in 1..Len(ids) : ids[i] = Undefined
            THEN /\ pc' = "done"
                 /\ promise' = RejectedWith(noSuch("service", FirstUnknown(arg, ids)))
                 /\ calls' = calls
            ELSE /\ pc' = "findAlertByName"
                 /\ promise' = promise
                 /\ calls' = Append(calls, Request("findAlertByName", 0, [name |-> arg.name]))
  /\ UNCHANGED <<space, chartOps, outcome, spaceOnlyVars, updateVars, arg, account, target>>

\* findAlertByName(alert.name).then(_.get('id')).catch(_.constant(undefined))
\* settles and the write is issued
AlertLookupSettles ==
  /\ pc = "findAlertByName"
  /\ pc' = "write"
  /\ \E r \in FewResults :
       LET alert == mergeServices(arg, serviceIdsOf(arg, account.services))
           found == findByProperty("alert", "name",
                                   ServerListing(account.alerts, "name", alert.name),
                                   alert.name)
       IN calls' = Append(calls,
                          IF r.ok /\ found.st = "resolved"
                          THEN Request("putAlert", found.value.id, alert)
                          ELSE Request("postAlert", 0, alert))
  /\ UNCHANGED <<space, chartOps, outcome, spaceOnlyVars, updateVars, callVars>>

\* the write settles: its promise is the one the generator returned
AlertWriteSettles ==
  /\ pc = "write"
  /\ pc' = "done"
  /\ \E r \in Results :
       LET w == calls[Len(calls)]
           id == IF w.api = "putAlert" THEN w.id ELSE PostedAtId
       IN IF r.ok
          THEN /\ promise' = ResolvedWith(Stored(id, w.body))
               /\ account' = [account EXCEPT !.alerts =
                                IF w.api = "putAlert" THEN AfterPut(@, id, w.body)
                                ELSE Append(@, Stored(id, w.body))]
          ELSE /\ promise' = RejectedWith(r.err)
               /\ account' = account
  /\ UNCHANGED <<space, calls, chartOps, outcome, spaceOnlyVars, updateVars, arg, target>>

AlertNext ==
  \/ CallCreateOrUpdateAlert
  \/ ServicesSettle
  \/ AlertLookupSettles
  \/ AlertWriteSettles

SpecAlert == AlertInit /\ [][AlertNext]_vars

-----------------------------------------------------------------------------
(* createOrUpdateService *)

ServiceInit ==
  /\ pc = "idle"
  /\ arg \in [title : {"x", "xz", "y"}]
  /\ \E ts \in SeqsUpTo({"x", "xz", "y"}, MaxServices) :
       account = [i \in 1..Len(ts) |-> [id |-> i, title |-> ts[i], old |-> TRUE]]
  /\ target = <<>>
  /\ promise = NotSettled
  /\ space = 0
  /\ calls = <<>>
  /\ chartOps = <<>>
  /\ outcome = NoOutcome
  /\ SpaceUnused
  /\ UpdateUnused

\* createOrUpdateService(newService) calls findServiceByTitle
CallCreateOrUpdateService ==
  /\ pc = "idle"
  /\ pc' = "findServiceByTitle"
  /\ calls' = Append(calls, Request("findServiceByTitle", 0, arg))
  /\ UNCHANGED <<space, chartOps, outcome, spaceOnlyVars, updateVars, callVars>>

\* .then(service => this.putService(service.id, newService),
\*       _err => this.postService(newService))
ServiceLookupSettles ==
  /\ pc = "findServiceByTitle"
  /\ pc' = "write"
  /\ \E r \in FewResults :
       LET found == findByProperty("service", "title",
                                   ServerListing(account, "title", arg.title), arg.title)
       IN calls' = Append(calls,
                          IF r.ok /\ found.st = "resolved"
                          THEN Request("putService", found.value.id, arg)
                          ELSE Request("postService", 0, arg))
  /\ UNCHANGED <<space, chartOps, outcome, spaceOnlyVars, updateVars, callVars>>

\* the write settles: the returned promise follows it
ServiceWriteSettles ==
  /\ pc = "write"
  /\ pc' = "done"
  /\ \E r \in Results :
       LET w == calls[Len(calls)]
           id == IF w.api = "putService" THEN w.id ELSE PostedAtId
       IN IF r.ok
          THEN /\ promise' = ResolvedWith(Stored(id, w.body))
               /\ account' = IF w.api = "putService" THEN AfterPut(account, id, w.body)
                             ELSE Append(account, Stored(id, w.body))
          ELSE /\ promise' = RejectedWith(r.err)
               /\ account' = account
  /\ UNCHANGED <<space, calls, chartOps, outcome, spaceOnlyVars, updateVars, arg, target>>

ServiceNext ==
  \/ CallCreateOrUpdateService
  \/ ServiceLookupSettles
  \/ ServiceWriteSettles

SpecService == ServiceInit /\ [][ServiceNext]_vars

-----------------------------------------------------------------------------
(* getAllPaginated *)

MaxFound == 4      \* elements the server holds
MaxPage == 2       \* most elements the server puts into one page

NoOpts == [f \in {} |-> 0]     \* opts not given
\* the caller's opts: none, other options, a query, and a query with an offset
CallerOpts == {NoOpts, [foo |-> "bar"], [foo |-> "bar", qs |-> [name |-> "x"]],
               [qs |-> [offset |-> 7]]}
\* a paginated getter annotated with its resultPath, and a plain function
Getters == {[resultPath |-> "xs"], [resultPath |-> Undefined]}

\* an assert that accepts every getter
validPaginatedGetter_always(getter) == TRUE

\* assert(paginatedGetter.resultPath, 'invalid paginatedGetter')
validPaginatedGetter(getter) == getter.resultPath \notin {Undefined, ""}

\* how a call that throws before returning a promise stands
Thrown(message) == [st |-> "thrown", message |-> message]
\* the promise while the pages are fetched, with the acc of the pending request
Collecting(acc) == [st |-> "pending", acc |-> acc]

\* const optsWithOffset = offset => _.merge(opts, { qs: { offset } })
optsWithOffset(opts, offset) ==
  LET qs == IF "qs" \in DOMAIN opts THEN opts.qs ELSE NoOpts
  IN [f \in DOMAIN opts \cup {"qs"} |->
        IF f = "qs"
        THEN [g \in DOMAIN qs \cup {"offset"} |-> IF g = "offset" THEN offset ELSE qs[g]]
        ELSE opts[f]]

\* the page the server answers with: at most len of its elements from offset on
Page(found, offset, len) ==
  LET rest == IF offset >= found THEN 0 ELSE found - offset
      n == IF len < rest THEN len ELSE rest
  IN [query |-> [offset |-> offset, length |-> n, found |-> found],
      xs |-> [i \in 1..n |-> offset + i]]

\* a nextOffset that assumes full pages
nextOffset_fullPages(page) == page.query.offset + MaxPage

\* const nextOffset = page.query.offset + page.query.length
nextOffset(page) == page.query.offset + page.query.length
\* const isLastPage = nextOffset >= page.query.found
isLastPage(page) == nextOffset(page) >= page.query.found

PageInit ==
  /\ pc = "idle"
  /\ arg \in [getter : Getters, opts : CallerOpts]
  /\ account \in [found : 0..MaxFound]
  /\ target = <<>>
  /\ promise = NotSettled
  /\ space = 0
  /\ calls = <<>>
  /\ chartOps = <<>>
  /\ outcome = NoOutcome
  /\ SpaceUnused
  /\ UpdateUnused

\* getAllPaginated(paginatedGetter, opts): the assert, then getNextPart([], 0)
CallGetAllPaginated ==
  /\ pc = "idle"
  /\ IF validPaginatedGetter(arg.getter)
     THEN /\ pc' = "getPage"
          /\ promise' = Collecting(<<>>)
          /\ calls' = Append(calls, [api |-> "getPage", opts |-> optsWithOffset(arg.opts, 0)])
     ELSE /\ pc' = "done"
          /\ promise' = Thrown("invalid paginatedGetter")
          /\ calls' = calls
  /\ UNCHANGED <<space, chartOps, outcome, spaceOnlyVars, updateVars, arg, account, target>>

\* a page arrives: resultOrContinue(acc)(page)
PageSettles ==
  /\ pc = "getPage"
  /\ \E r \in FewResults, len \in 1..MaxPage :
       LET page == Page(account.found, calls[Len(calls)].opts.qs.offset, len)
           newAcc == promise.acc \o page[arg.getter.resultPath]
       IN IF ~r.ok
          THEN /\ pc' = "done"
               /\ promise' = RejectedWith(r.err)
               /\ calls' = calls
          ELSE IF isLastPage(page)
               THEN /\ pc' = "done"
                    /\ promise' = ResolvedWith(newAcc)
                    /\ calls' = calls
               ELSE /\ pc' = "getPage"
                    /\ promise' = Collecting(newAcc)
                    /\ calls' = Append(calls, [api |-> "getPage",
                                               opts |-> optsWithOffset(arg.opts, nextOffset(page))])
  /\ UNCHANGED <<space, chartOps, outcome, spaceOnlyVars, updateVars, arg, account, target>>

PageNext ==
  \/ CallGetAllPaginated
  \/ PageSettles

SpecPaginate == PageInit /\ [][PageNext]_vars

\* The call against a server that reports a constant found and puts any number
\* of elements, also none, into a page.  calls holds the pending request only
\* and target the page that arrived.

\* the server answers the pending request
PageArrives ==
  /\ pc = "getPage"
  /\ \E len \in 0..MaxPage :
       target' = Page(account.found, calls[Len(calls)].opts.qs.offset, len)
  /\ pc' = "resultOrContinue"
  /\ UNCHANGED <<space, calls, chartOps, outcome, spaceOnlyVars, updateVars, arg, account, promise>>

\* resultOrContinue(acc)(page): resolves with the last page, else getNextPart
ResultOrContinue ==
  /\ pc = "resultOrContinue"
  /\ LET page == target
         newAcc == promise.acc \o page[arg.getter.resultPath]
     IN IF isLastPage(page)
        THEN /\ pc' = "done"
             /\ promise' = ResolvedWith(newAcc)
             /\ calls' = calls
        ELSE /\ pc' = "getPage"
             /\ promise' = Collecting(newAcc)
             /\ calls' = <<[api |-> "getPage", opts |-> optsWithOffset(arg.opts, nextOffset(page))]>>
  /\ target' = <<>>
  /\ UNCHANGED <<space, chartOps, outcome, spaceOnlyVars, updateVars, arg, account>>

PageNextAnswered ==
  \/ CallGetAllPaginated
  \/ PageArrives
  \/ ResultOrContinue

\* every request is answered and every answer is handled
SpecPaginateAnswered ==
  PageInit /\ [][PageNextAnswered]_vars
    /\ WF_vars(CallGetAllPaginated) /\ WF_vars(PageArrives) /\ WF_vars(ResultOrContinue)

-----------------------------------------------------------------------------
(* _processRawConfig, and the start of updateFromDir that applies it        *)
(*                                                                         *)
(* A string is the sequence of its characters; in a template the token     *)
(* "{{a}}" stands for the placeholder of variable a.  An array read from a *)
(* file is [array |-> its elements], a directory is [dir |-> the values of *)
(* its files in key order], an object is a record of its fields.           *)

MaxMetrics == 2     \* entries of the raw metric list
MaxOutdated == 2    \* names of the raw outdated metric list

Max(a, b) == IF a >= b THEN a ELSE b

PlaceholderVar == ("{{a}}" :> "a") @@ ("{{b}}" :> "b")
DefaultName == <<"_", "_", "d", "e", "f", "a", "u", "l", "t", "_", "_">>
TemplatedFields == <<"name", "display_name", "composite">>
ObjectFields == {"attributes"}

\* the metric definitions of the raw lists
MetricDefs ==
  { [name |-> DefaultName, period |-> 60],
    [name |-> DefaultName, display_name |-> <<"{{b}}">>, attributes |-> [color |-> "red", units |-> "s"]],
    [name |-> <<"x">>],
    [name |-> <<"y">>, period |-> 10],
    [name |-> <<"m", ".", "{{a}}">>, composite |-> <<"s", "(", "{{a}}", ".", "{{b}}", ")">>,
     attributes |-> [units |-> "ms"]] }

\* a default metric followed by a metric without and one with a period of its own
ExampleMetrics ==
  << [name |-> DefaultName, period |-> 60], [name |-> <<"x">>], [name |-> <<"y">>, period |-> 10] >>

\* the names of the raw outdated metric lists
OutdatedNames == { <<"o", ".", "{{a}}">>, <<"o", ".", "1">>, <<"{{a}}", ".", "{{b}}">> }

\* template_values as declared, in declaration order
TemplateValues ==
  { <<>>,
    << [key |-> "a", values |-> <<1, 2>>] >>,
    << [key |-> "a", values |-> <<1, 2>>], [key |-> "b", values |-> <<3, 4>>] >>,
    << [key |-> "b", values |-> <<3, 4>>], [key |-> "a", values |-> <<1, 2>>] >>,
    << [key |-> "a", values |-> <<1>>], [key |-> "b", values |-> <<3, 4>>] >> }

\* the other four kinds, given together, and sources.json holding one definition
source1 == [name |-> <<"h", ".", "{{a}}">>, display_name |-> <<"H">>]
space1 == [name |-> <<"s", ".", "{{a}}">>]
OtherKinds ==
  { NoOpts,
    [spaces |-> [dir |-> <<space1, [array |-> <<[name |-> <<"r">>], space1>>]>>],
     alerts |-> [array |-> <<[name |-> <<"a">>]>>],
     services |-> [array |-> <<[title |-> <<"t">>]>>],
     sources |-> [array |-> <<[name |-> <<"h">>]>>]],
    [sources |-> source1] }

\* outdated.json without metrics: empty, and with the other four kinds
OutdatedOthers ==
  { NoOpts,
    [spaces |-> <<space1.name>>, alerts |-> <<<<"a">>>>, services |-> <<<<"t">>>>,
     sources |-> <<<<"h">>>>] }

\* a list as one array, and as a directory whose first file holds an array
AsArray(s) == [array |-> s]
AsDir(s) == [dir |-> IF Len(s) >= 2 THEN <<AsArray(SubSeq(s, 1, 2))>> \o SubSeq(s, 3, Len(s))
                     ELSE <<AsArray(s)>>]

With(obj, field, v) == [f \in DOMAIN obj \cup {field} |-> IF f = field THEN v ELSE obj[f]]

RawMetrics ==
  LET lists == SeqsUpTo(MetricDefs, MaxMetrics)
  IN {AsArray(s) : s \in lists} \cup {AsDir(s) : s \in lists \ {<<>>}} \cup {AsArray(ExampleMetrics)}

\* raw configs: every metric list with and without an outdated.json, and every
\* outdated metric list with few metric lists; each with every template_values
RawConfigs ==
  LET outdatedFull == With(CHOOSE o \in OutdatedOthers : o # NoOpts, "metrics", <<<<"o", ".", "1">>>>)
      fewMetrics == {AsArray(<<>>), AsDir(<<CHOOSE m \in MetricDefs : m.name = <<"x">>>>)}
      outdateds == OutdatedOthers
                     \cup {[metrics |-> n] : n \in SeqsUpTo(OutdatedNames, MaxOutdated)}
      byMetrics == OtherKinds \cup {With(o, "metrics", m) : o \in OtherKinds, m \in RawMetrics}
      byOutdated == {With(With(o, "metrics", m), "outdated", d) :
                       o \in OtherKinds, m \in fewMetrics, d \in outdateds}
      untemplated == byMetrics \cup {With(c, "outdated", outdatedFull) : c \in byMetrics}
                       \cup byOutdated
  IN untemplated \cup {With(c, "template_values", t) : c \in untemplated, t \in TemplateValues}

\* the keys of a definition in the order its file lists them
FieldOrder == <<"name", "title", "display_name", "composite", "period", "attributes">>
\* _.values of a definition: [value |-> x] is the plain value x of a field
objectValues(obj) ==
  LET keys == SelectSeq(FieldOrder, LAMBDA f : f \in DOMAIN obj)
  IN [i \in 1..Len(keys) |-> [value |-> obj[keys[i]]]]

\* _.toArray: the elements of an array, the values of an object
toArray(v) ==
  IF "array" \in DOMAIN v THEN v.array ELSE IF "dir" \in DOMAIN v THEN v.dir ELSE objectValues(v)

\* _.flatten: one level
RECURSIVE flatten(_)
flatten(list) ==
  IF list = <<>> THEN <<>>
  ELSE LET e == Head(list)
       IN (IF "array" \in DOMAIN e THEN e.array ELSE <<e>>) \o flatten(Tail(list))

\* const allFlat = _.flow(_.defaultTo([]), _.toArray, _.flatten)
allFlat(config, kind) == IF kind \in DOMAIN config THEN flatten(toArray(config[kind])) ELSE <<>>

\* _.merge of two arrays: index by index
mergeArrays(object, source) ==
  [i \in 1..Max(Len(object), Len(source)) |-> IF i <= Len(source) THEN source[i] ELSE object[i]]

\* _.merge of two objects whose nested objects hold plain values
mergeValues(object, source) ==
  [f \in DOMAIN object \cup DOMAIN source |-> IF f \in DOMAIN source THEN source[f] ELSE object[f]]

\* a merge in which the first object wins
merge_objectWins(object, source) ==
  [f \in DOMAIN object \cup DOMAIN source |-> IF f \in DOMAIN object THEN object[f] ELSE source[f]]

merge(object, source) ==
  [f \in DOMAIN object \cup DOMAIN source |->
     IF f \notin DOMAIN source THEN object[f]
     ELSE IF f \notin DOMAIN object THEN source[f]
     ELSE IF f \in ObjectFields THEN mergeValues(object[f], source[f])
     ELSE source[f]]

ConfigKinds == <<"metrics", "spaces", "alerts", "services", "sources">>
KindSet == {ConfigKinds[i] : i \in 1..Len(ConfigKinds)}

\* an outdated without the five empty defaults
outdatedOf_given(config) ==
  LET given == IF "outdated" \in DOMAIN config THEN config.outdated ELSE NoOpts
  IN [k \in DOMAIN given |-> mergeArrays(<<>>, given[k])]

\* _.merge({ metrics: [], spaces: [], alerts: [], services: [], sources: [] }, config.outdated)
outdatedOf(config) ==
  LET given == IF "outdated" \in DOMAIN config THEN config.outdated ELSE NoOpts
  IN [k \in KindSet \cup DOMAIN given |-> IF k \in DOMAIN given THEN mergeArrays(<<>>, given[k]) ELSE <<>>]

\* const templateValues = config.template_values || []
templateValuesOf(config) == IF "template_values" \in DOMAIN config THEN config.template_values ELSE <<>>

reverse(s) == [i \in 1..Len(s) |-> s[Len(s) + 1 - i]]

RECURSIVE SizeBelow(_, _)
\* the number of combinations of the lists before the d-th
SizeBelow(lists, d) == IF d <= 1 THEN 1 ELSE SizeBelow(lists, d - 1) * Len(lists[d - 1])

\* a product in which the last list varies fastest
cartesianProduct_lastFastest(lists) ==
  [n \in 1..SizeBelow(lists, Len(lists) + 1) |->
     [d \in 1..Len(lists) |->
        lists[d][(((n - 1) \div SizeBelow(reverse(lists), Len(lists) + 1 - d)) % Len(lists[d])) + 1]]]

\* combinatorics.cartesianProduct(...lists).toArray(): the first list varies fastest
cartesianProduct(lists) ==
  [n \in 1..SizeBelow(lists, Len(lists) + 1) |->
     [d \in 1..Len(lists) |-> lists[d][(((n - 1) \div SizeBelow(lists, d)) % Len(lists[d])) + 1]]]

\* _.flow(_.zip(keys), _.fromPairs)
zipKeysToObj(keys, vs) ==
  [k \in {keys[i] : i \in 1..Len(keys)} |-> vs[CHOOSE i \in 1..Len(keys) : keys[i] = k]]

createTemplateValuePermutations(templateValues) ==
  LET keys == reverse([i \in 1..Len(templateValues) |-> templateValues[i].key])
      values == reverse([i \in 1..Len(templateValues) |-> templateValues[i].values])
      vs == cartesianProduct(values)
  IN [n \in 1..Len(vs) |-> zipKeysToObj(keys, vs[n])]

\* _.isEmpty(templateValues) ? [{}] : createTemplateValuePermutations(templateValues)
templateValuePermutations(templateValues) ==
  IF templateValues = <<>> THEN <<NoOpts>> ELSE createTemplateValuePermutations(templateValues)

\* createTemplate(source)(data): every placeholder replaced by the value of its variable
createTemplate(source, data) ==
  [i \in 1..Len(source) |->
     IF source[i] \in DOMAIN PlaceholderVar THEN ToString(data[PlaceholderVar[source[i]]]) ELSE source[i]]

\* evaluating the template throws a ReferenceError: a variable is not in data
Unbound(source, data) ==
  \E i \in 1..Len(source) :
     source[i] \in DOMAIN PlaceholderVar /\ PlaceholderVar[source[i]] \notin DOMAIN data

\* createPropsTemplate(obj)(pathes)(data): the pathes present in obj are set to
\* their rendering
createPropsTemplate(obj, pathes, data) ==
  [f \in DOMAIN obj |->
     IF Includes(f, pathes) /\ obj[f] # <<>> THEN createTemplate(obj[f], data) ELSE obj[f]]

UnboundProps(obj, pathes, data) ==
  \E f \in DOMAIN obj : Includes(f, pathes) /\ Unbound(obj[f], data)

\* a rendering of the templates that keeps equal results
templatePermutations_all(template, perms) ==
  [n \in 1..Len(perms) |-> createTemplate(template, perms[n])]

\* templatePermutations(template)
templatePermutations(template, perms) ==
  Uniq([n \in 1..Len(perms) |-> createTemplate(template, perms[n])])

RECURSIVE templatesPermutations(_, _)
\* _.flatMap(templatePermutations)
templatesPermutations(templates, perms) ==
  IF templates = <<>> THEN <<>>
  ELSE templatePermutations(Head(templates), perms) \o templatesPermutations(Tail(templates), perms)

\* const createMetricTemplate = metric => createPropsTemplate(metric)(['name', 'display_name', 'composite'])
createMetricTemplate(metric, data) == createPropsTemplate(metric, TemplatedFields, data)

\* a permutationsOfObj that keeps equal results
permutationsOfObj_all(obj, perms) ==
  [n \in 1..Len(perms) |-> createMetricTemplate(obj, perms[n])]

\* permutationsOfObj(createMetricTemplate)(obj)
permutationsOfObj(obj, perms) ==
  Uniq([n \in 1..Len(perms) |-> createMetricTemplate(obj, perms[n])])

RECURSIVE permutationsOfObjs(_, _)
\* _.flatMap(permutationsOfObj(createMetricTemplate))
permutationsOfObjs(objs, perms) ==
  IF objs = <<>> THEN <<>>
  ELSE permutationsOfObj(Head(objs), perms) \o permutationsOfObjs(Tail(objs), perms)

IsDefault(x) == "name" \in DOMAIN x /\ x.name = DefaultName

\* an assert that accepts any number of __default__ metrics
atMostOneDefault_always(metrics) == TRUE

\* assert(ps[0].length <= 1, 'more than 1 __default__ metric')
atMostOneDefault(metrics) == Len(SelectSeq(metrics, IsDefault)) <= 1

\* an applyDefaultMetric that keeps the default entry
applyDefaultMetric_keepDefault(metrics) ==
  LET ps0 == SelectSeq(metrics, IsDefault)
      defaultMetric == IF ps0 # <<>> THEN ps0[1] ELSE NoOpts
  IN [i \in 1..Len(metrics) |-> merge(defaultMetric, metrics[i])]

\* applyDefaultMetric, past its assert
applyDefaultMetric(metrics) ==
  LET ps0 == SelectSeq(metrics, IsDefault)
      rest == SelectSeq(metrics, LAMBDA x : ~IsDefault(x))
      defaultMetric == IF ps0 # <<>> THEN ps0[1] ELSE NoOpts
  IN [i \in 1..Len(rest) |-> merge(defaultMetric, rest[i])]

\* const processRawMetrics = _.flow(applyDefaultMetric, permutationsOfObjs(createMetricTemplate))
processRawMetrics(metrics, perms) == permutationsOfObjs(applyDefaultMetric(metrics), perms)

AssertionError(message) == [name |-> "AssertionError", message |-> message]
ReferenceError == [name |-> "ReferenceError", message |-> "not defined"]
NoError == [name |-> Undefined, message |-> ""]

\* the elements _.map and _.flatMap iterate over: none for an undefined list
elementsAt(obj, k) == IF k \in DOMAIN obj THEN obj[k] ELSE <<>>

\* the error _processRawConfig throws, if it throws
processRawConfigError(config) ==
  LET metrics == allFlat(config, "metrics")
      perms == templateValuePermutations(templateValuesOf(config))
      merged == applyDefaultMetric(metrics)
      old == elementsAt(outdatedOf(config), "metrics")
  IN IF ~atMostOneDefault(metrics) THEN AssertionError("more than 1 __default__ metric")
     ELSE IF \/ \E i \in 1..Len(merged), n \in 1..Len(perms) : UnboundProps(merged[i], TemplatedFields, perms[n])
             \/ \E i \in 1..Len(old), n \in 1..Len(perms) : Unbound(old[i], perms[n])
          THEN ReferenceError
          ELSE NoError

\* a normalization that renders the outdated names of every kind
processRawConfig_renderAll(config) ==
  LET perms == templateValuePermutations(templateValuesOf(config))
      outdated == outdatedOf(config)
  IN [metrics |-> processRawMetrics(allFlat(config, "metrics"), perms),
      spaces |-> allFlat(config, "spaces"),
      alerts |-> allFlat(config, "alerts"),
      services |-> allFlat(config, "services"),
      sources |-> allFlat(config, "sources"),
      outdated |-> [k \in DOMAIN outdated |->
                      IF \E i \in 1..Len(outdated[k]), n \in 1..Len(perms) : Unbound(outdated[k][i], perms[n])
                      THEN outdated[k]
                      ELSE templatesPermutations(outdated[k], perms)]]

\* the object _processRawConfig returns
processRawConfig(config) ==
  LET perms == templateValuePermutations(templateValuesOf(config))
      outdated == outdatedOf(config)
  IN [metrics |-> processRawMetrics(allFlat(config, "metrics"), perms),
      spaces |-> allFlat(config, "spaces"),
      alerts |-> allFlat(config, "alerts"),
      services |-> allFlat(config, "services"),
      sources |-> allFlat(config, "sources"),
      outdated |-> With(outdated, "metrics",
                        mergeArrays(elementsAt(outdated, "metrics"),
                                    templatesPermutations(elementsAt(outdated, "metrics"), perms)))]

\* the requests of the first yield of updateFromDir
RECURSIVE DeleteCalls(_, _)
DeleteCalls(api, names) ==
  IF names = <<>> THEN <<>>
  ELSE <<[api |-> api, name |-> Head(names)]>> \o DeleteCalls(api, Tail(names))

deletesFirst(config) ==
  DeleteCalls("deleteMetric", elementsAt(config.outdated, "metrics"))
    \o DeleteCalls("findSpaceByName", elementsAt(config.outdated, "spaces"))
    \o DeleteCalls("findAlertByName", elementsAt(config.outdated, "alerts"))
    \o DeleteCalls("findServiceByTitle", elementsAt(config.outdated, "services"))
    \o DeleteCalls("deleteSource", elementsAt(config.outdated, "sources"))

ConfigInit ==
  /\ pc = "idle"
  /\ arg \in RawConfigs
  /\ account = <<>>
  /\ target = <<>>
  /\ promise = NotSettled
  /\ space = 0
  /\ calls = <<>>
  /\ chartOps = <<>>
  /\ outcome = NoOutcome
  /\ SpaceUnused
  /\ UpdateUnused

\* AppOpticsAPI._processRawConfig(rawConfig), as showConfigDir calls it
CallProcessRawConfig ==
  /\ pc = "idle"
  /\ pc' = "shown"
  /\ promise' = IF processRawConfigError(arg) # NoError
                THEN [st |-> "thrown", error |-> processRawConfigError(arg)]
                ELSE ResolvedWith(processRawConfig(arg))
  /\ UNCHANGED <<space, calls, chartOps, outcome, spaceOnlyVars, updateVars, arg, account, target>>

\* updateFromDir(configDir) up to its first yield
CallUpdateFromDir ==
  /\ pc = "idle"
  /\ IF processRawConfigError(arg) # NoError
     THEN /\ pc' = "done"
          /\ promise' = RejectedWith(processRawConfigError(arg))
          /\ calls' = calls
     ELSE /\ pc' = "deletes"
          /\ promise' = NotSettled
          /\ calls' = deletesFirst(processRawConfig(arg))
  /\ UNCHANGED <<space, chartOps, outcome, spaceOnlyVars, updateVars, arg, account, target>>

ConfigNext ==
  \/ CallProcessRawConfig
  \/ CallUpdateFromDir

SpecConfig == ConfigInit /\ [][ConfigNext]_vars

-----------------------------------------------------------------------------
(* Properties of createOrUpdateSpace *)

IsChartCall(c) == c.api \in {"deleteChart", "putChart", "postChart"}
ChartCalls == SelectSeq(calls, IsChartCall)
Count(c) == Cardinality({i \in 1..Len(calls) : calls[i] = c})
Idx(s) == 1..Len(s)

\* the call has computed and issued its chart operations
ChartOpsIssued ==
  \/ pc = "chartOps"
  \/ pc = "done" /\ outcome.msg[1] \in
       {"", "some chart operations failed in space", "TypeError"}

NamesOf(s) == {s[i].name : i \in Idx(s)}
FirstWithName(n, s) ==
  CHOOSE i \in Idx(s) : s[i].name = n /\ \A j \in 1..(i - 1) : s[j].name # n

\* C1: for a valid definition D and a pre-existing space s with charts E, the
\* chart calls issued are exactly: one deleteChart(s, e.id) per e in E whose
\* name no chart of D has, one putChart(s, id of the (first) chart of E with
\* the same name, c) per c in D whose name occurs in E, and one postChart(s, c)
\* per c in D whose name does not occur in E.
C1_ExactChartOperations ==
  (ChartOpsIssued /\ space = SpaceId) =>
    LET D == newSpace.charts
        E == existingCharts
        dels == {i \in Idx(E) : E[i].name \notin NamesOf(D)}
        puts == {i \in Idx(D) : D[i].name \in NamesOf(E)}
        posts == {i \in Idx(D) : D[i].name \notin NamesOf(E)}
    IN /\ \A i \in dels : Count(Call("deleteChart", SpaceId, E[i].id, NoChart)) = 1
       /\ \A i \in puts :
            Count(Call("putChart", SpaceId, E[FirstWithName(D[i].name, E)].id, D[i])) = 1
       /\ \A i \in posts : Count(Call("postChart", SpaceId, 0, D[i])) = 1
       /\ Len(ChartCalls) = Cardinality(dels) + Cardinality(puts) + Cardinality(posts)

C1_Witness ==
  /\ ChartOpsIssued /\ space = SpaceId
  /\ \E i, j, k \in Idx(calls) :
       /\ calls[i].api = "deleteChart"
       /\ calls[j].api = "putChart"
       /\ calls[k].api = "postChart"

\* a chart request failed: its collectErrs promise holds a record or rejected
OpFailed(o) == o.res.st \in {"record", "rejected"}
FailedOps == SelectSeq(chartOps, OpFailed)
AggregateText == "some chart operations failed in space"

\* C2: the call rejects with 'some chart operations failed in space <name>'
\* if and only if at least one issued chart operation failed; error.errors is
\* then one record {chart, op, errors} per failed operation, in array order
\* (delete, update, create); with no failed operation the call resolves.
C2_AggregateErrorIffFailure ==
  (ChartOpsIssued /\ pc = "done") =>
    IF FailedOps = <<>>
    THEN outcome = Resolved
    ELSE /\ outcome.st = "rejected"
         /\ outcome.msg = <<AggregateText, newSpace.name>>
         /\ Len(outcome.errors) = Len(FailedOps)
         /\ \A i \in Idx(FailedOps) :
              /\ outcome.errors[i].chart = FailedOps[i].chart
              /\ outcome.errors[i].op = FailedOps[i].op

\* C3: whatever the kind of a chart request's failure, all other chart
\* operations are still issued and awaited, and the failure is reported as a
\* record {chart, op, errors} of the aggregate error, not as another error.
C3_FailureNeverPreventsSiblings ==
  (ChartOpsIssued /\ pc = "done") =>
    /\ \A i \in Idx(chartOps) : chartOps[i].res.st # "pending"
    /\ \A i \in Idx(chartOps) :
         OpFailed(chartOps[i]) =>
           /\ outcome.msg = <<AggregateText, newSpace.name>>
           /\ \E k \in Idx(outcome.errors) :
                /\ outcome.errors[k].chart = chartOps[i].chart
                /\ outcome.errors[k].op = chartOps[i].op

HasEmptyName(D) == \E i \in Idx(D) : D[i].name \in {"", Undefined}
HasDuplicateName(D) ==
  \E i, j \in Idx(D) : i # j /\ D[i].name # Undefined /\ D[i].name = D[j].name

\* C4: a definition with a chart whose name is empty or missing is rejected
\* with 'empty chart name in space <name>' and no remote call is issued.
C4_EmptyChartNameRejected ==
  (HasEmptyName(newSpace.charts) /\ pc # "idle") =>
    /\ pc = "done"
    /\ outcome = Rejected("empty chart name in space", newSpace.name)
    /\ calls = <<>>

C4_Witness ==
  /\ pc = "done"
  /\ \E i \in Idx(newSpace.charts) : newSpace.charts[i].name = Undefined
  /\ outcome.st = "rejected"

\* C5 as stated: a definition with two charts of the same name is rejected
\* with 'duplicate chart names in space <name>' and no remote call is issued.
C5_Original ==
  (HasDuplicateName(newSpace.charts) /\ pc # "idle") =>
    /\ pc = "done"
    /\ outcome = Rejected("duplicate chart names in space", newSpace.name)
    /\ calls = <<>>

\* C5, amended: a definition with two charts of the same name and no chart with
\* an empty or missing name is rejected with 'duplicate chart names in space
\* <name>' and no remote call is issued.
C5_DuplicateChartNamesRejected ==
  (/\ HasDuplicateName(newSpace.charts)
   /\ ~HasEmptyName(newSpace.charts)
   /\ pc # "idle") =>
    /\ pc = "done"
    /\ outcome = Rejected("duplicate chart names in space", newSpace.name)
    /\ calls = <<>>

C5_Witness ==
  /\ pc = "done"
  /\ HasDuplicateName(newSpace.charts)
  /\ outcome = Rejected("duplicate chart names in space", newSpace.name)

ValidDefinition == validateNewChartNames(newChartNamesOf(newSpace.charts)) = "ok"
NoRemoteSpace == SpaceId \notin remoteSpaces
CountApi(api) == Cardinality({i \in Idx(calls) : calls[i].api = api})
IndexOfApi(api) == CHOOSE i \in Idx(calls) : calls[i].api = api

\* C11: when no remote space has the definition's name, the call issues exactly
\* one postSpace whose body is the definition without its charts, never fetches
\* charts, issues no chart call until the creation has returned the id, and
\* then one postChart(new space id, chart) per chart of the definition and no
\* putChart or deleteChart.
C11_CreatesSpaceThenPostsCharts ==
  (NoRemoteSpace /\ ValidDefinition) =>
    LET D == newSpace.charts IN
    /\ CountApi("getCharts") = 0
    /\ CountApi("putChart") = 0
    /\ CountApi("deleteChart") = 0
    /\ CountApi("postSpace") = IF pc \in {"idle", "findSpaceByName"} THEN 0 ELSE 1
    /\ \A i \in Idx(calls) :
         calls[i].api = "postSpace" => calls[i].body = [name |-> newSpace.name]
    /\ space # NewSpaceId => ChartCalls = <<>>
    /\ space = NewSpaceId =>
         /\ \A i \in Idx(D) : Count(Call("postChart", NewSpaceId, 0, D[i])) = 1
         /\ Len(ChartCalls) = Len(D)
         /\ \A i \in Idx(calls) : IsChartCall(calls[i]) => IndexOfApi("postSpace") < i

C11_Witness ==
  /\ NoRemoteSpace
  /\ pc = "done"
  /\ outcome = Resolved
  /\ space = NewSpaceId
  /\ Len(newSpace.charts) = 2
  /\ CountApi("postChart") = 2

\* C12: when a remote space with the definition's name already exists, the
\* call issues neither postSpace nor putSpace and no second space appears.
C12_ExistingSpaceNeverPosted ==
  (SpaceId \in remoteSpaces) =>
    /\ CountApi("postSpace") = 0
    /\ CountApi("putSpace") = 0
    /\ remoteSpaces = {SpaceId}

Succeeded(o) == o.res.st = "undefined"

\* the remote account shows the effect of the i-th operation of the array
EffectApplied(i) ==
  LET o == chartOps[i] IN
  IF o.op = "delete" THEN \A c \in remoteCharts : c.id # o.id
  ELSE IF o.op = "update"
       THEN \E c \in remoteCharts :
              c.space = space /\ c.id = o.id /\ c.name = o.chart /\ c.rev = o.rev
       ELSE \E c \in remoteCharts :
              c.space = space /\ c.name = o.chart /\ c.rev = o.rev

\* C13: when the call rejects because chart operations failed, the effect of
\* every chart operation that succeeded is still applied remotely and the
\* requests issued are the lookup, the chart fetch or space creation and the
\* computed chart operations: no compensating request follows.
C13_NoRollbackOfSucceededOps ==
  (pc = "done" /\ outcome.st = "rejected" /\ ChartOpsIssued) =>
    /\ \A i \in Idx(chartOps) : Succeeded(chartOps[i]) => EffectApplied(i)
    /\ Len(calls) = 2 + Len(chartOps)
    /\ \A i \in Idx(chartOps) : calls[2 + i] = CallOf(space, chartOps[i])

C13_Witness ==
  /\ pc = "done"
  /\ outcome.msg[1] = AggregateText
  /\ \E i, j \in Idx(chartOps) :
       /\ Succeeded(chartOps[i]) /\ chartOps[i].op = "update"
       /\ OpFailed(chartOps[j])

\* the position of an operation's set in the order delete, update, create
SetRank(o) == IF o.op = "delete" THEN 1 ELSE IF o.op = "update" THEN 2 ELSE 3
\* the request of the j-th chart operation has been issued
Started(j) ==
  \E c \in Idx(calls), sid \in {SpaceId, NewSpaceId} : calls[c] = CallOf(sid, chartOps[j])

\* C30 as stated: no operation of a later set has started while an operation
\* of an earlier set of the call is still pending.
C30_Original ==
  \A i, j \in Idx(chartOps) :
     (SetRank(chartOps[i]) < SetRank(chartOps[j]) /\ chartOps[i].res = Pending) => ~Started(j)

\* C30: the operations of one call are issued together, the deletes first,
\* then the updates, then the creates, each before any of them has settled;
\* operations of all three sets are pending at the same time and the call
\* settles from their results only.
C30_ChartOpsIssuedTogetherInOrder ==
  /\ \A i, j \in Idx(chartOps) : i < j => SetRank(chartOps[i]) <= SetRank(chartOps[j])
  /\ Len(calls) >= Len(chartOps)
  /\ \A j \in Idx(chartOps) :
       \E sid \in {SpaceId, NewSpaceId} :
          calls[Len(calls) - Len(chartOps) + j] = CallOf(sid, chartOps[j])
  /\ (pc = "done" /\ outcome.st = "resolved") =>
       \A j \in Idx(chartOps) : chartOps[j].res # Pending

C30_Witness ==
  /\ pc = "chartOps"
  /\ \E i, j, k \in Idx(chartOps) :
       /\ chartOps[i].op = "delete" /\ chartOps[j].op = "update" /\ chartOps[k].op = "create"
       /\ i < j /\ j < k
       /\ Started(i) /\ Started(j) /\ Started(k)
  /\ \A j \in Idx(chartOps) : chartOps[j].res = Pending

-----------------------------------------------------------------------------
(* Properties of dumpSpace *)

\* the spaces of the dumped account named exactly like the argument
ExactSpaces == {i \in 1..Len(account.spaces) : account.spaces[i] = arg}
FirstExact == CHOOSE i \in ExactSpaces : \A j \in ExactSpaces : i <= j
IdOfSpace(i) == SpaceId + i - 1
DistinctNames(cs) == \A k, l \in Idx(cs) : k # l => cs[k].name # cs[l].name

\* a chart without the ids the server gave to it and to its streams
StripIds(chart) ==
  LET c == omit({"id"}, chart)
  IN [c EXCEPT !.streams = [j \in 1..Len(@) |-> omit({"id"}, @[j])]]

\* the other account now holds one space named like the i-th space of the
\* dumped account, with the same charts up to ids
EquivalentTo(i) ==
  LET S == RemoteChartsOf(account, IdOfSpace(i))
      made == {k \in Idx(target.spaces) : target.spaces[k].name = arg}
  IN /\ Cardinality(made) = 1
     /\ Cardinality(target.charts) = Len(S)
     /\ {StripIds(c) : c \in target.charts} = {StripIds(S[k]) : k \in Idx(S)}

NoRemoteFailure ==
  /\ outcome.msg[1] # "postSpace error"
  /\ \A i \in Idx(chartOps) : ~OpFailed(chartOps[i])

C15_DumpNotFoundOrFirstMatch ==
  /\ (ExactSpaces = {} /\ promise.st # "pending") =>
       /\ promise.st = "rejected"
       /\ CountApi("getCharts") = 0
       /\ \/ promise.error = TransportError
          \/ /\ promise.error.statusCode = "404"
             /\ promise.error.what = "space"
             /\ promise.error.name = arg
  /\ ExactSpaces # {} =>
       LET S == RemoteChartsOf(account, IdOfSpace(FirstExact)) IN
       /\ \A i \in Idx(calls) :
            calls[i].api = "getCharts" => calls[i].space = IdOfSpace(FirstExact)
       /\ promise.st = "resolved" =>
            /\ CountApi("getCharts") = 1
            /\ Len(promise.value.charts) = Len(S)
            /\ \A k \in Idx(S) : promise.value.charts[k].name = S[k].name

C15_Witness ==
  /\ promise.st = "rejected"
  /\ promise.error.statusCode = "404"
  /\ \E i \in Idx(account.spaces) : account.spaces[i] = "xz"

\* d is the stream s without id and type, and without composite exactly when
\* s has a metric field; every other field is unchanged
StreamCleaned(d, s) ==
  /\ DOMAIN d = DOMAIN s \ ({"id", "type"} \cup
                             (IF "metric" \in DOMAIN s THEN {"composite"} ELSE {}))
  /\ \A f \in DOMAIN d : d[f] = s[f]

\* d is the chart c without the removed fields, its streams cleaned
ChartCleaned(d, c, removed) ==
  /\ DOMAIN d = DOMAIN c \ removed
  /\ \A f \in DOMAIN d \ {"streams"} : d[f] = c[f]
  /\ Len(d.streams) = Len(c.streams)
  /\ \A j \in Idx(c.streams) : StreamCleaned(d.streams[j], c.streams[j])

DumpCleaned(removed) ==
  LET v == promise.value
      cs == RemoteChartsOf(account, IdOfSpace(FirstExact))
  IN /\ DOMAIN v = {"name", "charts"}
     /\ v.name = arg
     /\ Len(v.charts) = Len(cs)
     /\ \A i \in Idx(cs) : ChartCleaned(v.charts[i], cs[i], removed)

\* C16 as stated: the dump is the space with its charts loaded, the space's id
\* removed, every chart's id and type removed, every stream's id and type
\* removed and its composite removed exactly when it has a metric field; every
\* other field is unchanged.
C16_Original == promise.st = "resolved" => DumpCleaned({"id", "type"})

\* C16, amended: the same, but of a chart only the id is removed: the chart's
\* type is returned unchanged.
C16_DumpIsCleanedSpace == promise.st = "resolved" => DumpCleaned({"id"})

C16_Witness ==
  /\ promise.st = "resolved"
  /\ Len(promise.value.charts) = 2
  /\ \E i, j \in Idx(promise.value.charts) :
       /\ \E k \in Idx(promise.value.charts[i].streams) :
            "metric" \in DOMAIN promise.value.charts[i].streams[k]
       /\ \E k \in Idx(promise.value.charts[j].streams) :
            "composite" \in DOMAIN promise.value.charts[j].streams[k]

-----------------------------------------------------------------------------
(* Properties of the finders *)

\* what the claim calls the kind and the compared field of each finder
FinderWhat == [findSpaceByName |-> "space", findAlertByName |-> "alert",
               findServiceByTitle |-> "service"]
FinderField == [findSpaceByName |-> "name", findAlertByName |-> "name",
                findServiceByTitle |-> "title"]
ExactElements == {i \in Idx(account) : account[i][FinderField[arg.finder]] = arg.value}

\* C17: each finder resolves with the first element of the listing whose name
\* (title) equals the argument, also when loosely matching elements are listed
\* before it, and rejects with the 404 error 'no <space|alert|service> named
\* <value>' when no element matches exactly (a listing that fails in transport
\* rejects with that failure).
C17_FindersMatchExactly ==
  (pc = "done" /\ promise # RejectedWith(TransportError)) =>
    IF ExactElements = {}
    THEN /\ promise.st = "rejected"
         /\ promise.error.statusCode = "404"
         /\ promise.error.what = FinderWhat[arg.finder]
         /\ promise.error.name = arg.value
    ELSE promise = ResolvedWith(
           account[CHOOSE i \in ExactElements : \A j \in ExactElements : i <= j])

C17_Witness ==
  /\ pc = "done"
  /\ arg = [finder |-> "findServiceByTitle", value |-> "x"]
  /\ Len(account) = 3
  /\ account[1].title = "xz" /\ account[2].title = "x" /\ account[3].title = "x"
  /\ promise = ResolvedWith(account[2])

-----------------------------------------------------------------------------
(* Properties of createOrUpdateAlert and createOrUpdateService *)

Writes(apis) == {i \in Idx(calls) : calls[i].api \in apis}
AlertWrites == Writes({"postAlert", "putAlert"})

\* the remote service a reference denotes: the first with that id or title
Denoted(ref) ==
  {i \in Idx(account.services) :
     /\ account.services[i].id = ref \/ account.services[i].title = ref
     /\ \A j \in 1..(i - 1) :
          account.services[j].id # ref /\ account.services[j].title # ref}
AllRefsKnown == \A k \in Idx(arg.services) : Denoted(arg.services[k]) # {}

\* the alerts the account held before the call that are named like the new one
ExistingAlerts ==
  {i \in Idx(account.alerts) :
     account.alerts[i].id # PostedAtId /\ account.alerts[i].name = arg.name}

\* b is the new alert with every reference replaced by the service's id
IsResolvedAlert(b) ==
  /\ DOMAIN b = DOMAIN arg
  /\ b.name = arg.name
  /\ Len(b.services) = Len(arg.services)
  /\ \A k \in Idx(arg.services) :
       \E i \in Denoted(arg.services[k]) : b.services[k] = account.services[i].id

\* C18: once the services are fetched and every reference is known, the call
\* issues exactly one write: putAlert(id of the first alert of that name,
\* alert) when an alert of exactly that name exists, postAlert(alert) when
\* none exists; the body has every service reference replaced by the id of
\* the matching service; the call resolves with the write's result and
\* rejects with its error when the write fails.
C18_AlertLookupThenOneWrite ==
  /\ Cardinality(AlertWrites) = IF pc \in {"write", "done"} /\ calls[Len(calls)].api # "getAllServices"
                                THEN 1 ELSE 0
  /\ \A i \in AlertWrites :
       /\ IsResolvedAlert(calls[i].body)
       /\ IF ExistingAlerts = {}
          THEN calls[i].api = "postAlert"
          ELSE /\ calls[i].api = "putAlert"
               /\ \E e \in ExistingAlerts :
                    /\ \A f \in ExistingAlerts : e <= f
                    /\ calls[i].id = account.alerts[e].id
       /\ pc = "done" =>
            \/ promise.st = "rejected" /\ promise.error \in RemoteErrors
            \/ /\ promise.st = "resolved"
               /\ omit({"id"}, promise.value) = calls[i].body

\* C19: if a service reference of the alert matches no remote service by id
\* or title, the call issues no alert lookup, no postAlert and no putAlert,
\* and once the services are fetched it rejects with the 404 error 'no
\* service named <reference>' for the first such reference.
C19_UnknownServiceRejected ==
  ~AllRefsKnown =>
    /\ Writes({"findAlertByName", "postAlert", "putAlert"}) = {}
    /\ pc = "done" =>
         /\ promise.st = "rejected"
         /\ \/ promise.error = TransportError
            \/ /\ promise.error.statusCode = "404"
               /\ promise.error.what = "service"
               /\ Denoted(promise.error.name) = {}
               /\ \E k \in Idx(arg.services) :
                    /\ arg.services[k] = promise.error.name
                    /\ \A j \in 1..(k - 1) : Denoted(arg.services[j]) # {}

C19_Witness ==
  /\ pc = "done"
  /\ arg.services = <<"1", "s9">>
  /\ Len(account.services) = 2
  /\ promise = RejectedWith(noSuch("service", "s9"))
  /\ Len(calls) = 1

\* the services the account held before the call with the new service's title
ExistingServices ==
  {i \in Idx(account) : account[i].id # PostedAtId /\ account[i].title = arg.title}

\* C20: createOrUpdateService issues exactly one write: putService(id of the
\* first service of exactly that title, newService) when such a service
\* exists, otherwise postService(newService); a failed putService rejects the
\* call with its error and is not followed by a postService.
C20_ServiceLookupThenOneWrite ==
  LET ws == Writes({"postService", "putService"}) IN
  /\ Cardinality(ws) = IF pc \in {"write", "done"} THEN 1 ELSE 0
  /\ \A i \in ws :
       /\ calls[i].body = arg
       /\ IF ExistingServices = {}
          THEN calls[i].api = "postService"
          ELSE /\ calls[i].api = "putService"
               /\ \E e \in ExistingServices :
                    /\ \A f \in ExistingServices : e <= f
                    /\ calls[i].id = account[e].id
       /\ (pc = "done" /\ promise.st = "rejected") => promise.error \in RemoteErrors

-----------------------------------------------------------------------------
(* Properties of getAllPaginated *)

OffsetOf(i) == calls[i].opts.qs.offset
\* the elements a page request at that offset can have returned
Upto(n) == [i \in 1..n |-> i]

\* C21: the pages are requested one after the other, the first at offset 0
\* and each next where the previous page ended, each exactly once and with the
\* caller's other options on every request; the call stops after the first
\* page that reaches found and resolves to the items of all pages in request
\* order.
C21_PagesInOrderAndConcatenated ==
  validPaginatedGetter(arg.getter) =>
    /\ \A i \in Idx(calls) :
         /\ i = 1 => OffsetOf(i) = 0
         /\ i > 1 => OffsetOf(i) > OffsetOf(i - 1) /\ OffsetOf(i) - OffsetOf(i - 1) <= MaxPage
         /\ OffsetOf(i) < account.found \/ i = 1
         /\ \A f \in DOMAIN arg.opts \ {"qs"} : calls[i].opts[f] = arg.opts[f]
         /\ DOMAIN calls[i].opts = DOMAIN arg.opts \cup {"qs"}
         /\ "qs" \in DOMAIN arg.opts =>
              \A g \in DOMAIN arg.opts.qs \ {"offset"} : calls[i].opts.qs[g] = arg.opts.qs[g]
    /\ promise.st = "pending" /\ pc = "getPage" =>
         promise.acc = Upto(OffsetOf(Len(calls)))
    /\ promise.st = "resolved" => promise.value = Upto(account.found)

C21_Witness ==
  /\ pc = "done"
  /\ account.found = 4
  /\ promise = ResolvedWith(<<1, 2, 3, 4>>)
  /\ Len(calls) = 3
  /\ arg.opts = [foo |-> "bar", qs |-> [name |-> "x"]]

\* C22: with a getter that has no resultPath the call throws 'invalid
\* paginatedGetter' synchronously: no promise is built and no request issued.
C22_InvalidGetterThrows ==
  (arg.getter.resultPath = Undefined /\ pc # "idle") =>
    /\ pc = "done"
    /\ promise = Thrown("invalid paginatedGetter")
    /\ calls = <<>>

C22_Witness ==
  /\ pc = "done"
  /\ arg.getter.resultPath = Undefined
  /\ promise.st = "thrown"

-----------------------------------------------------------------------------
(* Properties of _processRawConfig *)

\* the call of _processRawConfig has returned a config
Normalized == pc = "shown" /\ promise.st = "resolved"
GivenOutdated == IF "outdated" \in DOMAIN arg THEN arg.outdated ELSE NoOpts
OmitsAllKinds == KindSet \cap DOMAIN arg = {} /\ KindSet \cap DOMAIN GivenOutdated = {}
IsSequence(v) == DOMAIN v = 1..Len(v)

\* C23: the normalized config has the five kinds metrics, spaces, alerts,
\* services and sources as sequences at top level and under outdated; all ten
\* are empty when the raw config omits them all.
C23_AllKindsPresent ==
  Normalized =>
    /\ \A k \in KindSet :
         /\ k \in DOMAIN promise.value /\ IsSequence(promise.value[k])
         /\ k \in DOMAIN promise.value.outdated /\ IsSequence(promise.value.outdated[k])
    /\ OmitsAllKinds =>
         \A k \in KindSet : promise.value[k] = <<>> /\ promise.value.outdated[k] = <<>>

C23_Witness ==
  /\ Normalized
  /\ OmitsAllKinds
  /\ "template_values" \in DOMAIN arg
  /\ \A k \in KindSet : promise.value[k] = <<>> /\ promise.value.outdated[k] = <<>>

FlatMetrics == allFlat(arg, "metrics")
DefaultsOf(metrics) == SelectSeq(metrics, IsDefault)
OthersOf(metrics) == SelectSeq(metrics, LAMBDA x : ~IsDefault(x))
ValuePermutations == templateValuePermutations(templateValuesOf(arg))
Renderings(template) == {createTemplate(template, ValuePermutations[n]) : n \in 1..Len(ValuePermutations)}

\* the value of field f of an output comes from the same field of src
FieldFrom(o, f, src) ==
  IF Includes(f, TemplatedFields) THEN o[f] \in Renderings(src[f]) ELSE o[f] = src[f]

\* output o is metric m over the default d: the fields of m as m has them,
\* the fields only d has as d has them, at both levels
MergedOver(o, m, d) ==
  /\ DOMAIN o = DOMAIN m \cup DOMAIN d
  /\ \A f \in DOMAIN o :
       IF f \in ObjectFields /\ f \in DOMAIN m /\ f \in DOMAIN d
       THEN /\ DOMAIN o[f] = DOMAIN m[f] \cup DOMAIN d[f]
            /\ \A g \in DOMAIN o[f] : o[f][g] = IF g \in DOMAIN m[f] THEN m[f][g] ELSE d[f][g]
       ELSE IF f \in DOMAIN m THEN FieldFrom(o, f, m) ELSE FieldFrom(o, f, d)

\* C24: with one entry named __default__ in the flattened metric list, every
\* other metric is output merged over it: the fields the metric defines keep
\* the metric's values, the fields only the default defines take the
\* default's, and the default entry is dropped; the list __default__ with
\* period 60, x, y with period 10 yields x with period 60 and y with period 10.
C24_DefaultMergedUnderEveryMetric ==
  (Normalized /\ Len(DefaultsOf(FlatMetrics)) = 1) =>
    LET d == DefaultsOf(FlatMetrics)[1]
        rest == OthersOf(FlatMetrics)
        out == promise.value.metrics
    IN /\ \A i \in 1..Len(out) : \E j \in 1..Len(rest) : MergedOver(out[i], rest[j], d)
       /\ \A j \in 1..Len(rest) : \E i \in 1..Len(out) : MergedOver(out[i], rest[j], d)
       /\ \A i \in 1..Len(out) : out[i].name # DefaultName
       /\ FlatMetrics = ExampleMetrics =>
            out = << [name |-> <<"x">>, period |-> 60], [name |-> <<"y">>, period |-> 10] >>

C24_Witness ==
  /\ Normalized
  /\ FlatMetrics = ExampleMetrics
  /\ promise.value.metrics = << [name |-> <<"x">>, period |-> 60], [name |-> <<"y">>, period |-> 10] >>

TooManyDefaults == AssertionError("more than 1 __default__ metric")

\* C25: with more than one entry named __default__ in the flattened metric
\* list, normalization fails with 'more than 1 __default__ metric' and
\* updateFromDir issues no request.
C25_TwoDefaultsFailBeforeAnyRequest ==
  Len(DefaultsOf(FlatMetrics)) > 1 =>
    /\ pc = "shown" => promise = [st |-> "thrown", error |-> TooManyDefaults]
    /\ pc \notin {"idle", "shown"} =>
         pc = "done" /\ promise = RejectedWith(TooManyDefaults) /\ calls = <<>>

C25_Witness ==
  /\ pc = "done"
  /\ Len(DefaultsOf(FlatMetrics)) = 2
  /\ promise = RejectedWith(TooManyDefaults)
  /\ "outdated" \in DOMAIN arg /\ "metrics" \in DOMAIN arg.outdated /\ arg.outdated.metrics # <<>>
  /\ calls = <<>>

DeclaredKeys == {templateValuesOf(arg)[i].key : i \in 1..Len(templateValuesOf(arg))}
DeclaredValues(i) == templateValuesOf(arg)[i].values
PositionIn(v, list) == CHOOSE i \in 1..Len(list) : list[i] = v
\* assignment p comes before q in the order in which the first declared key
\* varies slowest
Before(p, q) ==
  \E i \in 1..Len(templateValuesOf(arg)) :
     LET k == templateValuesOf(arg)[i].key
     IN /\ PositionIn(p[k], DeclaredValues(i)) < PositionIn(q[k], DeclaredValues(i))
        /\ \A j \in 1..(i - 1) : p[templateValuesOf(arg)[j].key] = q[templateValuesOf(arg)[j].key]
ExampleTemplateValues == << [key |-> "a", values |-> <<1, 2>>], [key |-> "b", values |-> <<3, 4>>] >>

\* C26: the permutations are the cartesian product of the declared value
\* lists: every combination of values once, none twice, ordered with the
\* first declared key varying slowest, so that {a: [1, 2], b: [3, 4]} gives 4
\* permutations that render '{{a}}.{{b}}' to 1.3, 1.4, 2.3, 2.4; without
\* template values there is the one empty assignment.
C26_PermutationsAreTheProduct ==
  pc # "idle" =>
    LET tv == templateValuesOf(arg)
        P == ValuePermutations
    IN /\ tv = <<>> => P = <<NoOpts>>
       /\ \A n \in 1..Len(P) :
            /\ DOMAIN P[n] = DeclaredKeys
            /\ \A i \in 1..Len(tv) : Includes(P[n][tv[i].key], tv[i].values)
       /\ \A a \in [DeclaredKeys -> 1..4] :
            (\A i \in 1..Len(tv) : Includes(a[tv[i].key], tv[i].values))
              => \E n \in 1..Len(P) : \A k \in DeclaredKeys : P[n][k] = a[k]
       /\ \A n, o \in 1..Len(P) : n < o => P[n] # P[o] /\ Before(P[n], P[o])
       /\ tv = ExampleTemplateValues => Len(P) = 4
       /\ ( /\ Normalized
            /\ tv = ExampleTemplateValues
            /\ GivenOutdated = [metrics |-> << <<"{{a}}", ".", "{{b}}">> >>] )
            => promise.value.outdated.metrics
                 = << <<"1", ".", "3">>, <<"1", ".", "4">>, <<"2", ".", "3">>, <<"2", ".", "4">> >>

C26_Witness ==
  /\ Normalized
  /\ templateValuesOf(arg) = ExampleTemplateValues
  /\ Len(ValuePermutations) = 4
  /\ promise.value.outdated.metrics
       = << <<"1", ".", "3">>, <<"1", ".", "4">>, <<"2", ".", "3">>, <<"2", ".", "4">> >>

MergedMetrics == applyDefaultMetric(FlatMetrics)
HasPlaceholder(str) == \E i \in 1..Len(str) : str[i] \in DOMAIN PlaceholderVar
\* metric m with its name, display_name and composite, where present,
\* rendered under assignment p and every other field as it is
RenderedUnder(m, p) ==
  [f \in DOMAIN m |->
     IF f \in {"name", "display_name", "composite"} THEN createTemplate(m[f], p) ELSE m[f]]
\* the renderings of m under every permutation in order, equal ones once
ExpansionOf(m) ==
  Uniq([n \in 1..Len(ValuePermutations) |-> RenderedUnder(m, ValuePermutations[n])])
RECURSIVE ExpansionsOf(_)
ExpansionsOf(ms) ==
  IF ms = <<>> THEN <<>> ELSE ExpansionOf(Head(ms)) \o ExpansionsOf(Tail(ms))
Plain(m) ==
  \A f \in DOMAIN m \cap {"name", "display_name", "composite"} : ~HasPlaceholder(m[f])

\* C27: every merged metric expands to its renderings under every permutation
\* in order, in which only name, display_name and composite, where present,
\* are rendered and every other field is copied, with equal results collapsed
\* to the first; a metric without placeholders yields one output, itself.
C27_MetricsExpandPerPermutation ==
  Normalized =>
    /\ promise.value.metrics = ExpansionsOf(MergedMetrics)
    /\ \A j \in 1..Len(MergedMetrics) :
         Plain(MergedMetrics[j]) => ExpansionOf(MergedMetrics[j]) = <<MergedMetrics[j]>>
    /\ (\A j \in 1..Len(MergedMetrics) : Plain(MergedMetrics[j]))
         => promise.value.metrics = MergedMetrics

C27_Witness ==
  /\ Normalized
  /\ Len(ValuePermutations) = 4
  /\ Len(MergedMetrics) = 1
  /\ "display_name" \in DOMAIN MergedMetrics[1] /\ "composite" \notin DOMAIN MergedMetrics[1]
  /\ HasPlaceholder(MergedMetrics[1].display_name) /\ ~HasPlaceholder(MergedMetrics[1].name)
  /\ Len(promise.value.metrics) = 2
  /\ promise.value.metrics[1].name = MergedMetrics[1].name
  /\ promise.value.metrics[2].display_name = <<"4">>

NoDuplicates(list) == \A i, j \in 1..Len(list) : i # j => list[i] # list[j]
RECURSIVE RenderingsInOrder(_)
\* for every template in order, its renderings under every permutation in
\* order, equal ones of the same template once
RenderingsInOrder(templates) ==
  IF templates = <<>> THEN <<>>
  ELSE Uniq([n \in 1..Len(ValuePermutations) |-> createTemplate(Head(templates), ValuePermutations[n])])
         \o RenderingsInOrder(Tail(templates))
GivenOutdatedMetrics == IF "metrics" \in DOMAIN GivenOutdated THEN GivenOutdated.metrics ELSE <<>>

\* C28 as stated: no name occurs twice in the normalized outdated.metrics.
C28_Original == Normalized => NoDuplicates(promise.value.outdated.metrics)

\* C28: the normalized outdated.metrics is one flat sequence holding, for
\* every outdated metric name in input order, its renderings under every
\* permutation in order, deduplicated by string value among the renderings of
\* that one name.
C28_OutdatedRenderedPerName ==
  Normalized =>
    /\ promise.value.outdated.metrics = RenderingsInOrder(GivenOutdatedMetrics)
    /\ \A i \in 1..Len(GivenOutdatedMetrics) :
         NoDuplicates(RenderingsInOrder(<<GivenOutdatedMetrics[i]>>))

C28_Witness ==
  /\ Normalized
  /\ GivenOutdatedMetrics = << <<"o", ".", "{{a}}">>, <<"o", ".", "1">> >>
  /\ Len(ValuePermutations) = 4
  /\ promise.value.outdated.metrics = << <<"o", ".", "1">>, <<"o", ".", "2">>, <<"o", ".", "1">> >>

-----------------------------------------------------------------------------
(* Properties of updateFromDir *)

\* the stage the claims give an operation: outdated deletions, then the
\* upserts of metrics, services and sources, then those of spaces and alerts
Rank(t) ==
  IF t.act = "delete" THEN 1
  ELSE IF t.kind \in {"metric", "service", "source"} THEN 2 ELSE 3
Issued(t) == tasks[t].phase # "new"
Settled(t) == tasks[t].phase \in {"ok", "nothing there", "failed"}

\* C6: the three stages run strictly in order: no operation of a later stage
\* is issued until every operation of every earlier stage has settled.
C6_StagesInOrder ==
  \A t, u \in DOMAIN tasks : (Rank(t) < Rank(u) /\ Issued(u)) => Settled(t)

C6_Witness ==
  \E t, u \in DOMAIN tasks :
    /\ Rank(t) < Rank(u)
    /\ tasks[t].phase = "failed"
    /\ Issued(u) /\ ~Settled(u)

RECURSIVE SumCounted(_)
SumCounted(T) ==
  IF T = {} THEN 0
  ELSE LET t == CHOOSE x \in T : TRUE IN tasks[t].counted + SumCounted(T \ {t})

\* C7: an outdated deletion that ends with a 404 (from the delete request, or
\* NotFound from the by-name lookup, and then no delete request is issued)
\* adds nothing to the failure counter; one that fails for another reason adds
\* exactly one.
C7_Deletion404NotCounted ==
  /\ errorCount = SumCounted(DOMAIN tasks)
  /\ \A t \in DOMAIN tasks :
       (t.act = "delete" /\ Settled(t)) =>
         /\ tasks[t].err \in {"none", "404"} => tasks[t].counted = 0
         /\ tasks[t].err = "other" => tasks[t].counted = 1
         /\ (t.kind \notin ByNameKinds /\ tasks[t].id = 0) =>
              Touch(t, "delete", t.name) \notin touched

C7_Witness ==
  \E t, u \in DOMAIN tasks :
    /\ t.act = "delete" /\ t.kind = "space"
    /\ tasks[t].phase = "nothing there" /\ tasks[t].id = 0
    /\ u.act = "delete" /\ tasks[u].err = "other"
    /\ errorCount = 1

\* C8: a failed operation never aborts the batch: every deletion and every
\* upsert of the config is issued exactly once whatever the outcome of the
\* others, and the later stages run when earlier stages had failures.
C8_FailureNeverAbortsBatch ==
  /\ \A t \in DOMAIN tasks : tasks[t].issued <= 1
  /\ stage = 4 => \A t \in DOMAIN tasks : tasks[t].issued = 1 /\ Settled(t)

C8_Witness ==
  /\ stage = 4
  /\ \E t, u \in DOMAIN tasks :
       /\ Rank(t) < Rank(u)
       /\ tasks[t].phase = "failed"
       /\ tasks[u].issued = 1

\* the resource-level operations that failed: deletions failing with anything
\* but a 404, and upserts failing with anything
FailedTasks ==
  {t \in DOMAIN tasks :
     /\ Settled(t)
     /\ tasks[t].err # "none"
     /\ (t.act = "update" \/ tasks[t].err # "404")}

C9_State ==
  /\ errorCount = Cardinality(FailedTasks)
  /\ result.st # "pending" => \A t \in DOMAIN tasks : Settled(t)
  /\ stage = 4 =>
       result = IF Cardinality(FailedTasks) > 0
                THEN [st |-> "rejected", n |-> Cardinality(FailedTasks)]
                ELSE [st |-> "resolved", n |-> 0]

\* C9: after the three stages updateFromDir fails with '<n> errors occured'
\* if and only if n > 0, n being the number of failed operations (deletions
\* failing with anything but 404, upserts failing with anything, 404 included);
\* each failure is counted once under every interleaving, the counter never
\* decreases, and the error is not raised before the last stage has settled.
C9_ErrorCountIsFailures ==
  /\ []C9_State
  /\ [][errorCount' >= errorCount]_vars

C9_Witness ==
  /\ stage = 4
  /\ result = [st |-> "rejected", n |-> 2]
  /\ \E t \in DOMAIN tasks : t.act = "update" /\ tasks[t].err = "404"

\* C10: delete requests go only to resources whose name is listed as outdated
\* and write requests only to declared names: a remote resource neither
\* declared nor outdated receives no delete and no write request.
C10_OnlyListedNamesTouched ==
  \A x \in touched :
    \E t \in DOMAIN tasks :
      /\ t.kind = x.kind
      /\ t.name = x.name
      /\ t.act = IF x.verb = "delete" THEN "delete" ELSE "update"

C10_Witness ==
  /\ stage = 4
  /\ [kind |-> "space", verb |-> "delete", name |-> "x"] \in touched
  /\ \E r \in remote["space"] : r.name = "xz"
  /\ ~\E r \in remote["space"] : r.name = "x"

\* C31: when a name is listed as outdated and declared, its deletion has
\* settled before its upsert is issued, and after a run without failures the
\* resource exists remotely with the declared definition.
C31_OutdatedAndDeclaredEndsDeclared ==
  \A d, u \in DOMAIN tasks :
    (d.act = "delete" /\ u.act = "update" /\ d.kind = u.kind /\ d.name = u.name) =>
      /\ Issued(u) => Settled(d)
      /\ (stage = 4 /\ result.st = "resolved") =>
           /\ \E x \in remote[u.kind] : x.name = u.name
           /\ \A x \in remote[u.kind] : x.name = u.name => x.def = "declared"

C31_Witness ==
  /\ stage = 4 /\ result.st = "resolved"
  /\ \E d, u \in DOMAIN tasks :
       /\ d.act = "delete" /\ u.act = "update" /\ d.kind = "alert" /\ u.kind = "alert"
       /\ d.name = "x" /\ u.name = "x"
       /\ tasks[d].phase = "ok" /\ tasks[u].phase = "ok"
  /\ remote["alert"] = {[id |-> 1, name |-> "xz", def |-> "old"],
                        [id |-> 11, name |-> "x", def |-> "declared"]}

-----------------------------------------------------------------------------
(* Properties of createOrUpdateSpace: the remote state after the call *)

ResolvedCall == pc = "done" /\ outcome.st = "resolved"
\* the charts of the space the call worked on
ChartsOfSpace == {c \in remoteCharts : c.space = space}
DefinedChart(n) == newSpace.charts[CHOOSE i \in Idx(newSpace.charts) : newSpace.charts[i].name = n]
\* one chart per chart name of the definition, as defined, and no other chart
HoldsExactlyDefinition ==
  /\ \A n \in NamesOf(newSpace.charts) :
       /\ Cardinality({c \in ChartsOfSpace : c.name = n}) = 1
       /\ \A c \in ChartsOfSpace : c.name = n => c.rev = DefinedChart(n).rev
  /\ \A c \in ChartsOfSpace : c.name \in NamesOf(newSpace.charts)

\* C32 as stated: after the call resolves the space holds exactly one chart
\* per chart name of the definition and no other chart, whatever it held.
C32_Original == ResolvedCall => HoldsExactlyDefinition

\* C32: after the call resolves, the space holds exactly one chart per chart
\* name of the definition and no other chart, provided the charts the space
\* held before the call had pairwise distinct names.
C32_SpaceHoldsDefinition ==
  (ResolvedCall /\ \A i, j \in Idx(existingCharts) :
                     i # j => existingCharts[i].name # existingCharts[j].name)
    => HoldsExactlyDefinition

C32_Witness ==
  /\ ResolvedCall
  /\ Len(existingCharts) = 2 /\ existingCharts[1].name # existingCharts[2].name
  /\ \E i, j \in Idx(chartOps) : chartOps[i].op = "delete" /\ chartOps[j].op = "update"
  /\ Len(newSpace.charts) = 2
  /\ HoldsExactlyDefinition

-----------------------------------------------------------------------------
(* Properties of the upserts: when a resource is created *)

\* C33: createOrUpdateSpace, createOrUpdateAlert and createOrUpdateService
\* issue a create only when no resource of exactly that name exists remotely:
\* a lookup that fails never leads to a second resource of an existing name.
C33_CreateOnlyWhenAbsent ==
  /\ \A i \in Writes({"postSpace"}) : SpaceId \notin remoteSpaces
  /\ \A i \in Writes({"postAlert"}) : ExistingAlerts = {}
  /\ \A i \in Writes({"postService"}) : ExistingServices = {}

-----------------------------------------------------------------------------
(* Properties of updateFromDir: spaces of one name *)

\* C34: updateFromDir never creates two remote spaces of the same name, also
\* when the config declares a space name more than once.
C34_NoTwoSpacesOfOneName ==
  \A a, b \in remote["space"] : a.name = b.name => a = b

-----------------------------------------------------------------------------
(* Properties of getAllPaginated: termination *)

\* C35: getAllPaginated terminates against every server that answers each
\* request with a page reporting a constant found, also when a page reports
\* length 0: a call that fetches pages eventually settles.
C35_Terminates == (pc = "getPage") ~> (pc = "done")

-----------------------------------------------------------------------------
(* Properties of _processRawConfig: the kinds other than metrics *)

OtherKindSet == KindSet \ {"metrics"}
\* the sub-tree is an array or a directory of files, not one definition
IsList(tree) == "array" \in DOMAIN tree \/ "dir" \in DOMAIN tree
\* the definitions of the four kinds as the raw config declares them, file by file
DeclaredOthers ==
  [spaces |-> <<space1, [name |-> <<"r">>], space1>>,
   alerts |-> <<[name |-> <<"a">>]>>,
   services |-> <<[title |-> <<"t">>]>>,
   sources |-> <<[name |-> <<"h">>]>>]

\* C36: the definitions of spaces, alerts, services and sources and the outdated
\* entries of these kinds are in the normalized config as the raw config gives
\* them: placeholders stay unrendered, and the entries are the same whatever
\* template_values declares.
C36_OtherKindsAsGiven ==
  Normalized =>
    \A k \in OtherKindSet :
      /\ promise.value[k] = allFlat(arg, k)
      /\ (k \in DOMAIN arg /\ IsList(arg[k])) => promise.value[k] = DeclaredOthers[k]
      /\ promise.value.outdated[k] = IF k \in DOMAIN GivenOutdated THEN GivenOutdated[k] ELSE <<>>

C36_Witness ==
  /\ Normalized
  /\ "template_values" \in DOMAIN arg
  /\ arg.template_values = << [key |-> "a", values |-> <<1, 2>>] >>
  /\ "spaces" \in DOMAIN arg /\ "spaces" \in DOMAIN GivenOutdated
  /\ Len(promise.value.spaces) = 3
  /\ promise.value.spaces[1].name = <<"s", ".", "{{a}}">>
  /\ promise.value.outdated.spaces = << <<"s", ".", "{{a}}">> >>

\* C37: for each kind the raw sub-tree is flattened: a missing value yields the
\* empty sequence, a bare definition object a one-element sequence holding that
\* object, and a sequence of definitions and sequences of definitions is
\* flattened by one level in order.
C37_FlattenedPerShape ==
  Normalized =>
    \A k \in OtherKindSet :
      /\ k \notin DOMAIN arg => promise.value[k] = <<>>
      /\ (k \in DOMAIN arg /\ ~IsList(arg[k])) => promise.value[k] = <<arg[k]>>
      /\ (k \in DOMAIN arg /\ IsList(arg[k])) => promise.value[k] = DeclaredOthers[k]

-----------------------------------------------------------------------------
(* Properties of createOrUpdateSpace: failures before the chart operations *)

AwaitsSpace == pc \in {"postSpace", "getCharts"}
\* the awaited request failed: the call ends rejected with the request's error
\* and without a chart request
SpaceStepFailed ==
  /\ pc' = "done"
  /\ outcome'.st = "rejected"
  /\ "error" \in DOMAIN outcome' /\ outcome'.error \in RemoteErrors
  /\ outcome'.msg[1] # AggregateText /\ outcome'.errors = <<>>
  /\ chartOps' = <<>> /\ calls' = calls /\ remoteCharts' = remoteCharts
\* the awaited request succeeded: the call goes on with the charts it was given
SpaceStepSucceeded ==
  /\ outcome'.st # "rejected"
  /\ existingCharts' = IF pc = "getCharts" THEN ChartListing(space) ELSE <<>>

\* C39: when postSpace or getCharts fails, createOrUpdateSpace rejects with
\* that error, not with the aggregate chart error, and issues no chart
\* operation.
C39_SpaceFailureRejectsWithoutChartOps ==
  [][AwaitsSpace => (SpaceStepFailed \/ SpaceStepSucceeded)]_vars

C39_Witness ==
  /\ pc = "done"
  /\ outcome = RejectedBy("getCharts error", ValidationError)
  /\ newSpace.charts # <<>>
  /\ remoteCharts # {}
  /\ chartOps = <<>>
  /\ \A i \in Idx(calls) : calls[i].api \in {"findSpaceByName", "getCharts"}

-----------------------------------------------------------------------------
(* Properties of createOrUpdateSpace: the call repeated *)

\* the requests of the second call
SecondCall ==
  {i \in Idx(calls) : Cardinality({j \in 1..i : calls[j].api = "findSpaceByName"}) = 2}
RemoteChartNames == {c.name : c \in remoteCharts}

\* C38: a second createOrUpdateSpace(D) right after the first resolved issues
\* no postSpace, no deleteChart and no postChart, at most one putChart per chart
\* of D, and leaves the set of remote chart names as it was.
C38_SecondCallOnlyUpdates ==
  /\ [](\A i \in SecondCall :
          /\ calls[i].api \in {"findSpaceByName", "getCharts", "putChart"}
          /\ calls[i].api = "putChart" =>
               /\ Includes(calls[i].chart.name, newChartNamesOf(newSpace.charts))
               /\ \A j \in SecondCall :
                    (calls[j].api = "putChart" /\ calls[j].chart.name = calls[i].chart.name)
                      => j = i)
  /\ [][Invocations = 2 => RemoteChartNames' = RemoteChartNames]_vars

=============================================================================
